---- MODULE Spec2Model ----
(***************************************************************************)
(* A model of EnsureUI (dima-kov/ensure-ui).                               *)
(*                                                                         *)
(* Strings are modelled as sequences of lexemes.  A lexeme is a piece of   *)
(* text that every regular expression of the program treats as a unit:     *)
(* "//", " ", "ensureUI", ":", "/", "[", "]", "page", ".js", a word.       *)
(* Concatenating lexemes gives back the text.                              *)
(*                                                                         *)
(* Seven specifications share the module:                                  *)
(*   Spec          runAllTests / runPageTest / executeGeneratedTest and    *)
(*                 the `test` command of src/lib/tester.js, src/bin/cli.js *)
(*   SpecTestPage  the `test-page <route>` command of src/bin/cli.js       *)
(*   SpecComments  the comment merge pass of extractEnsureUIComments       *)
(*   SpecScan      scanDirectory: merge, split, route resolution           *)
(*   SpecFlow      run / runFlowTest of the flow-capable revision          *)
(*   SpecParse     parseFlowFile of the flow-capable revision              *)
(*   SpecFlowExtract  extractEnsureUIComments of the flow-capable revision  *)
(***************************************************************************)
EXTENDS Integers, Sequences, FiniteSets, TLC

VARIABLES
  \* ---- runAllTests / runPageTest (src/lib/tester.js)
  pages,        \* the list findEnsureUIPages returned
  pc,           \* position of the run
  pageIdx,      \* runAllTests: i (0-based)
  expIdx,       \* runPageTest: i of the expectation loop (0-based)
  testResult,   \* runPageTest: testResult
  testCode,     \* runPageTest: testCode of the current expectation
  results,      \* this.results
  exitCode,     \* process exit status, Null while the process runs
  browsers,     \* number of launched browsers not yet closed
  isolatedPage, \* executeGeneratedTest: isolatedPage ("null", "open", "closed")
  execOutcome,  \* how executeGeneratedTest is about to end
  codePassed,   \* history: the generated code of the current expectation ran to its end
  called,       \* history: indices of the pages runPageTest was called on
  navLog,       \* history: per called page, how its first navigation ended
  synthLog,     \* history: <<page, expectation>> of every generateTestCode call
  trace,        \* history: the steps the current executeGeneratedTest call has taken
  openIsolated, \* number of isolated pages open in the browser context
  argRoute,     \* cli.js test-page: the <route> argument
  cliError,     \* cli.js test-page: message of the error its catch block received
  cookies,      \* cookies of the browser context: 0 set by the server, k by the code of expectation k
  isolatedUrl,  \* the URL executeGeneratedTest last sent the isolated page to
  synthOutcomes, \* history: how each generateTestCode call of the current page test ended
  codeNavigates, \* whether the text in testCode holds a page.goto call of its own
  \* ---- run / runFlowTest (flow-capable revision, src/unnamed/part_003)
  flows,        \* this.results.flows as parseFlowFile produced them
  fpc,          \* position of the flow run
  flowIdx,      \* run: index of the flow of the `for (const flowInfo of flows)` loop
  stepIdx,      \* runFlowTest: i (0-based)
  steps,        \* runFlowTest: the step objects of the current flow (shared by
                \* flowInfo.steps and testResult.steps)
  flowResult,   \* runFlowTest: testResult (passed, error, screenshots)
  flowState,    \* this.flowState
  flowResults,  \* the results run() has written back into this.results.flows
  flowBrowsers, \* number of launched browsers not yet closed
  session,      \* cookies and local storage of the flow's browser context
  flowExit,     \* process exit status of run(), Null while it runs
  synthTexts,   \* history: <<flow, step, text>> given to generateTestCode
  attempted,    \* history: <<flow, step>> of every step whose loop body started
  navStatus,    \* history: HTTP status the current step's page.goto answered, 0 when none
  \* ---- parseFlowFile (flow-capable revision, src/unnamed/part_003)
  doc,          \* content.split('\n') of the flow document
  ppc,          \* position of parseFlowFile
  docIdx,       \* the loop variable i
  inCodeBlock,
  currentFlow,  \* <<>> for null, else <<the flow being filled>>
  parsedFlows,  \* the local `flows`
  \* ---- extractEnsureUIComments, merge pass (src/lib/tester.js)
  lines,           \* content.split('\n'), each line a sequence of lexemes
  mpc,             \* position of the merge pass
  lineIdx,         \* i of the `for` loop (0-based)
  currentLine,     \* currentLine (0-based)
  startLineNumber, \* startLineNumber (1-based)
  fullExpectation, \* fullExpectation
  rawComments,     \* rawComments
  examined,        \* history: the indices the `for` loop tested for a start marker
  blocks,          \* history: per block, its start index and the indices it consumed
  \* ---- scanDirectory / extractEnsureUIComments, split loop (src/lib/tester.js)
  files,        \* the directory items scanDirectory visits, in order
  spc,          \* position of the scan
  fileIdx,      \* index of the item of the `for (const item of items)` loops
  commentIdx,   \* index of the comment of `for (const comment of rawComments)`
  expectations, \* extractEnsureUIComments: expectations
  allUrlParams, \* extractEnsureUIComments: allUrlParams
  discovered,   \* findEnsureUIPages: pages
  paramErrors,  \* the parameter errors scanDirectory logged
  responses     \* history: the collaborator's answer for each comment of the file

runVars == <<pages, pc, pageIdx, expIdx, testResult, testCode, results,
             exitCode, browsers, isolatedPage, execOutcome, codePassed, called,
             navLog, synthLog, trace, openIsolated, argRoute, cliError,
             cookies, isolatedUrl, synthOutcomes, codeNavigates>>

flowVars == <<flows, fpc, flowIdx, stepIdx, steps, flowResult, flowState,
              flowResults, flowBrowsers, session, flowExit, synthTexts, attempted,
              navStatus>>

mergeVars == <<lines, mpc, lineIdx, currentLine, startLineNumber,
               fullExpectation, rawComments, examined, blocks>>

scanVars == <<files, spc, fileIdx, commentIdx, expectations, allUrlParams,
              discovered, paramErrors, responses>>

parseVars == <<doc, ppc, docIdx, inCodeBlock, currentFlow, parsedFlows>>

nonRunVars == <<flowVars, mergeVars, scanVars, parseVars>>

nonFlowVars == <<runVars, mergeVars, scanVars, parseVars>>

nonMergeVars == <<runVars, flowVars, scanVars, parseVars>>

nonScanVars == <<runVars, flowVars, parseVars>>

nonParseVars == <<runVars, flowVars, mergeVars, scanVars>>

vars == <<runVars, flowVars, mergeVars, scanVars, parseVars>>

Null == "<null>"

\* ---------------------------------------------------------------- bounds
MaxPages == 2
MaxExpectations == 2
MaxFlows == 2
MaxSteps == 3
MaxLines == 4
MaxFiles == 2

MaxDocLines == 4

\* ------------------------------------------------------------- constants
StatusOK == 200

\* --------------------------------------------------------------- helpers
Range(s) == {s[k] : k \in 1..Len(s)}

Iota(n) == [k \in 1..n |-> k]

\* ------------------------------------------------------ the environment
\* What the collaborators (browser, text generation) may answer.
LaunchOutcomes == {"ok", "launch_throws", "newContext_throws", "newPage_throws"}

NavOutcomes ==
  {[thrown |-> FALSE, status |-> 200, content |-> TRUE],
   [thrown |-> FALSE, status |-> 200, content |-> FALSE],
   [thrown |-> FALSE, status |-> 500, content |-> TRUE],
   [thrown |-> FALSE, status |-> 404, content |-> TRUE],
   [thrown |-> TRUE,  status |-> 0,   content |-> TRUE]}

ApiErrorMessage == "EnsureUI API error: 500"
NetworkErrorMessage == "fetch failed"
TimeoutMessage == "page.goto: Timeout exceeded"
ContentErrorMessage == "page.content: Target closed"
ScreenshotErrorMessage == "page.screenshot: failed"
CookiesErrorMessage == "browserContext.cookies: Target closed"
EvaluateErrorMessage == "page.evaluate: Execution context was destroyed"
NullPageMessage == "Cannot read properties of null (reading 'screenshot')"

LoadErrorMessage(status) ==
  IF status = 500 THEN "Page failed to load: 500"
  ELSE IF status = 404 THEN "Page failed to load: 404"
  ELSE "Page failed to load"

\* ------------------------------------------------------------ runPageTest
NewTestResult(pageInfo) ==
  [page |-> pageInfo,
   passed |-> FALSE,
   basicChecks |-> [pageLoaded |-> FALSE],
   generatedTests |-> <<>>,
   error |-> Null]

\* Mutant: a failed assertion is recorded without its error text.
PassedEntryError_NoText(testPassed) == Null

PassedEntryError(testPassed) == IF testPassed THEN Null ELSE "Assertion failed"

ExecutedEntry(expectation, code, testPassed) ==
  [expectation |-> expectation,
   generatedCode |-> code,
   passed |-> testPassed,
   error |-> PassedEntryError(testPassed)]

\* Mutant: the catch block records the expectation without the error's message.
CaughtEntry_NoMessage(expectation, message) ==
  [expectation |-> expectation,
   generatedCode |-> Null,
   passed |-> FALSE,
   error |-> Null]

CaughtEntry(expectation, message) ==
  [expectation |-> expectation,
   generatedCode |-> Null,
   passed |-> FALSE,
   error |-> message]

PageVerdict(tr) ==
  tr.basicChecks.pageLoaded
    /\ \A k \in 1..Len(tr.generatedTests) : tr.generatedTests[k].passed

\* page.url() of a page that has not navigated, pageInfo.url, and the URL a
\* redirect of the deployment leads to.
BlankUrl == "about:blank"

TargetUrl == "pageInfo.url"

RedirectedUrl == "redirected"

\* What page.url() of the page test's own page can return once its first load
\* succeeded: pageInfo.url, or the URL a redirect has taken the page to.
PageUrls == {TargetUrl, RedirectedUrl}

NoPage == [expectations |-> <<>>]

NoOutcome == [result |-> "none", message |-> Null]

InitialResults == [totalPages |-> 0, passedPages |-> 0, failedPages |-> 0, pages |-> <<>>]

PageInputs ==
  {[expectations |-> Iota(n)] : n \in 1..MaxExpectations}

SeqsUpTo(S, n) == UNION {[1..k -> S] : k \in 0..n}

RunInit ==
  /\ pages \in SeqsUpTo(PageInputs, MaxPages)
  /\ pc = "start"
  /\ pageIdx = 0
  /\ expIdx = 0
  /\ testResult = NewTestResult(NoPage)
  /\ testCode = Null
  /\ results = InitialResults
  /\ exitCode = Null
  /\ browsers = 0
  /\ isolatedPage = "null"
  /\ execOutcome = NoOutcome
  /\ codePassed = FALSE
  /\ called = <<>>
  /\ navLog = <<>>
  /\ synthLog = <<>>
  /\ trace = <<>>
  /\ openIsolated = 0
  /\ argRoute = Null
  /\ cliError = Null
  /\ cookies = {}
  /\ isolatedUrl = BlankUrl
  /\ synthOutcomes = <<>>
  /\ codeNavigates = FALSE

\* runAllTests, up to the page loop.
RunAllStart ==
  /\ pc = "start"
  /\ IF Len(pages) = 0
       THEN /\ pc' = "exited"
            /\ exitCode' = 0
            /\ UNCHANGED results
       ELSE /\ pc' = "loop"
            /\ results' = [results EXCEPT !.totalPages = Len(pages)]
            /\ UNCHANGED exitCode
  /\ UNCHANGED <<pages, pageIdx, expIdx, testResult, testCode, browsers,
                 isolatedPage, execOutcome, codePassed, called, navLog, synthLog>>
  /\ UNCHANGED <<trace, openIsolated>>
  /\ UNCHANGED <<argRoute, cliError>>
  /\ UNCHANGED <<cookies>>
  /\ UNCHANGED isolatedUrl
  /\ UNCHANGED <<synthOutcomes>>
  /\ UNCHANGED <<codeNavigates>>
  /\ UNCHANGED nonRunVars

\* runAllTests: the loop takes the next page and calls runPageTest.
CallRunPageTest ==
  /\ pc = "loop"
  /\ pageIdx < Len(pages)
  /\ called' = Append(called, pageIdx + 1)
  /\ pc' = "launch"
  /\ UNCHANGED <<pages, pageIdx, expIdx, testResult, testCode, results, exitCode,
                 browsers, isolatedPage, execOutcome, codePassed, navLog, synthLog>>
  /\ UNCHANGED <<trace, openIsolated>>
  /\ UNCHANGED <<argRoute, cliError>>
  /\ UNCHANGED <<cookies>>
  /\ UNCHANGED isolatedUrl
  /\ UNCHANGED <<synthOutcomes>>
  /\ UNCHANGED <<codeNavigates>>
  /\ UNCHANGED nonRunVars

\* runPageTest: launch, newContext, newPage and the fresh testResult.
\* The three calls stand before the try block: a failure leaves runPageTest.
LaunchBrowser ==
  /\ pc = "launch"
  /\ \E o \in LaunchOutcomes :
       /\ browsers' = IF o = "launch_throws" THEN browsers ELSE browsers + 1
       /\ IF o = "ok"
            THEN /\ testResult' = NewTestResult(pages[pageIdx + 1])
                 /\ expIdx' = 0
                 /\ pc' = "navigate"
            ELSE /\ pc' = "rejected"
                 /\ UNCHANGED <<testResult, expIdx>>
  /\ UNCHANGED <<pages, pageIdx, testCode, results, exitCode, isolatedPage,
                 execOutcome, codePassed, called, navLog, synthLog>>
  /\ UNCHANGED <<trace, openIsolated>>
  /\ UNCHANGED <<argRoute, cliError>>
  /\ UNCHANGED <<cookies>>
  /\ UNCHANGED isolatedUrl
  /\ UNCHANGED <<synthOutcomes>>
  /\ UNCHANGED <<codeNavigates>>
  /\ UNCHANGED nonRunVars

\* What the first navigation of runPageTest leaves in testResult.
AfterNavigation(tr, o) ==
  IF o.thrown
    THEN [tr EXCEPT !.error = TimeoutMessage]
    ELSE IF o.status # StatusOK
      THEN [tr EXCEPT !.basicChecks.pageLoaded = FALSE,
                      !.error = LoadErrorMessage(o.status)]
      ELSE IF ~o.content
        THEN [tr EXCEPT !.basicChecks.pageLoaded = TRUE,
                        !.error = ContentErrorMessage]
        ELSE [tr EXCEPT !.basicChecks.pageLoaded = TRUE]

\* Mutant: the status check of the first navigation is skipped.
NavigationSucceeded_AnyStatus(o) == ~o.thrown /\ o.content

NavigationSucceeded(o) == ~o.thrown /\ o.status = StatusOK /\ o.content

\* The cookie a response of the deployment sets.
ServerCookie == 0

\* runPageTest: page.goto, the status check and page.content.
Navigate ==
  /\ pc = "navigate"
  /\ \E o \in NavOutcomes :
       /\ testResult' = AfterNavigation(testResult, o)
       /\ pc' = IF NavigationSucceeded(o) THEN "expect" ELSE "finally"
       /\ navLog' = Append(navLog, o)
       /\ cookies' = IF o.thrown THEN cookies ELSE cookies \cup {ServerCookie}
  /\ UNCHANGED isolatedUrl
  /\ UNCHANGED <<pages, pageIdx, expIdx, testCode, results, exitCode, browsers,
                 isolatedPage, execOutcome, codePassed, called, synthLog>>
  /\ UNCHANGED <<trace, openIsolated>>
  /\ UNCHANGED <<argRoute, cliError>>
  /\ UNCHANGED <<synthOutcomes>>
  /\ UNCHANGED <<codeNavigates>>
  /\ UNCHANGED nonRunVars

CurrentExpectation == testResult.page.expectations[expIdx + 1]

\* Mutant: the catch block of the expectation loop records nothing.
PushEntry_DropCaught(tr, entry) ==
  IF entry.generatedCode = Null
    THEN tr
    ELSE [tr EXCEPT !.generatedTests = Append(tr.generatedTests, entry)]

PushEntry(tr, entry) ==
  [tr EXCEPT !.generatedTests = Append(tr.generatedTests, entry)]

\* How generateText ends for a code synthesis call: with the text, with the
\* throw of `!response.ok`, or with the rejection of fetch.
SynthesisOutcomes == {"ok", "status", "network"}

\* error.message of the error generateTestCode rethrows.
SynthesisErrorMessage(o) ==
  IF o = "status" THEN ApiErrorMessage ELSE NetworkErrorMessage

\* runPageTest: generateTestCode for the next expectation.
GenerateTestCode ==
  /\ pc = "expect"
  /\ expIdx < Len(testResult.page.expectations)
  /\ \E o \in SynthesisOutcomes, navigates \in BOOLEAN :
       /\ synthLog' = Append(synthLog, <<pageIdx + 1, CurrentExpectation>>)
       /\ synthOutcomes' = Append(synthOutcomes, o)
       /\ IF o = "ok"
            THEN /\ testCode' = "code"
                 /\ codeNavigates' = navigates
                 /\ pc' = "exec_newpage"
                 /\ UNCHANGED <<testResult, expIdx>>
            ELSE /\ testResult' = PushEntry(testResult,
                                     CaughtEntry(CurrentExpectation,
                                                 SynthesisErrorMessage(o)))
                 /\ expIdx' = expIdx + 1
                 /\ UNCHANGED <<testCode, pc, codeNavigates>>
  /\ UNCHANGED <<pages, pageIdx, results, exitCode, browsers, isolatedPage,
                 execOutcome, codePassed, called, navLog>>
  /\ UNCHANGED <<trace, openIsolated>>
  /\ UNCHANGED <<argRoute, cliError>>
  /\ UNCHANGED <<cookies>>
  /\ UNCHANGED isolatedUrl
  /\ UNCHANGED nonRunVars

\* executeGeneratedTest: context.newPage().
ExecNewPage ==
  /\ pc = "exec_newpage"
  /\ \E ok \in BOOLEAN :
       /\ isolatedPage' = IF ok THEN "open" ELSE "null"
       /\ openIsolated' = IF ok THEN openIsolated + 1 ELSE openIsolated
       /\ pc' = IF ok THEN "exec_clear" ELSE "exec_catch"
  /\ trace' = Append(trace, "newPage")
  /\ UNCHANGED <<pages, pageIdx, expIdx, testResult, testCode, results, exitCode,
                 browsers, execOutcome, codePassed, called, navLog, synthLog>>
  /\ UNCHANGED <<argRoute, cliError>>
  /\ UNCHANGED <<cookies>>
  /\ UNCHANGED isolatedUrl
  /\ UNCHANGED <<synthOutcomes>>
  /\ UNCHANGED <<codeNavigates>>
  /\ UNCHANGED nonRunVars

\* Mutant: clearCookies leaves the context's cookies in place.
ClearedCookies_Kept(jar) == jar

\* The context's cookies after context.clearCookies() resolved.
ClearedCookies(jar) == {}

\* executeGeneratedTest: context.clearCookies().
ExecClearCookies ==
  /\ pc = "exec_clear"
  /\ \E ok \in BOOLEAN :
       /\ pc' = IF ok THEN "exec_goto" ELSE "exec_catch"
       /\ cookies' = IF ok THEN ClearedCookies(cookies) ELSE cookies
  /\ trace' = Append(trace, "clearCookies")
  /\ UNCHANGED openIsolated
  /\ UNCHANGED <<pages, pageIdx, expIdx, testResult, testCode, results, exitCode,
                 browsers, isolatedPage, execOutcome, codePassed, called, navLog, synthLog>>
  /\ UNCHANGED <<argRoute, cliError>>
  /\ UNCHANGED isolatedUrl
  /\ UNCHANGED <<synthOutcomes>>
  /\ UNCHANGED <<codeNavigates>>
  /\ UNCHANGED nonRunVars

\* Mutant: the engine leaves the navigation to code that has a page.goto.
NavigatesFirst_UnlessCodeDoes(navigates) == ~navigates

\* Lines 510-514 stand under no condition: the isolated page is navigated
\* whatever the generated code holds.
NavigatesFirst(navigates) == TRUE

\* executeGeneratedTest: const currentUrl = page.url();
\* isolatedPage.goto(currentUrl).
ExecGoto ==
  /\ pc = "exec_goto"
  /\ IF NavigatesFirst(codeNavigates)
       THEN /\ \E ok \in BOOLEAN :
                 /\ pc' = IF ok THEN "exec_code" ELSE "exec_catch"
                 /\ cookies' = IF ok THEN cookies \cup {ServerCookie} ELSE cookies
                 /\ \E currentUrl \in PageUrls :
                      isolatedUrl' = IF ok THEN currentUrl ELSE isolatedUrl
            /\ trace' = Append(trace, "goto")
       ELSE /\ pc' = "exec_code"
            /\ UNCHANGED <<cookies, isolatedUrl, trace>>
  /\ UNCHANGED openIsolated
  /\ UNCHANGED <<pages, pageIdx, expIdx, testResult, testCode, results, exitCode,
                 browsers, isolatedPage, execOutcome, codePassed, called, navLog, synthLog>>
  /\ UNCHANGED <<argRoute, cliError>>
  /\ UNCHANGED <<synthOutcomes>>
  /\ UNCHANGED <<codeNavigates>>
  /\ UNCHANGED nonRunVars

\* executeGeneratedTest: the generated code, then the screenshot, then return
\* true. The code's interactions leave the expectation's own cookie in the
\* context, whether or not the code then passes.
ExecCode ==
  /\ pc = "exec_code"
  /\ cookies' = cookies \cup {expIdx + 1}
  /\ \E codeOk \in BOOLEAN, shotOk \in BOOLEAN :
       /\ codePassed' = codeOk
       /\ IF codeOk /\ shotOk
            THEN /\ execOutcome' = [result |-> "true", message |-> Null]
                 /\ pc' = "exec_finally"
            ELSE /\ pc' = "exec_catch"
                 /\ UNCHANGED execOutcome
  /\ trace' = Append(trace, "code")
  /\ UNCHANGED openIsolated
  /\ UNCHANGED <<pages, pageIdx, expIdx, testResult, testCode, results, exitCode,
                 browsers, isolatedPage, called, navLog, synthLog>>
  /\ UNCHANGED <<argRoute, cliError>>
  /\ UNCHANGED isolatedUrl
  /\ UNCHANGED <<synthOutcomes>>
  /\ UNCHANGED <<codeNavigates>>
  /\ UNCHANGED nonRunVars

\* Mutant: the catch block swallows the failure and the call returns true.
CatchOutcome_Swallowed(isolated, shotOk) == [result |-> "true", message |-> Null]

\* The catch block's takeScreenshot(isolatedPage): what the block ends with.
CatchOutcome(isolated, shotOk) ==
  IF isolated = "null"
    THEN [result |-> "throw", message |-> NullPageMessage]
    ELSE IF shotOk
      THEN [result |-> "false", message |-> Null]
      ELSE [result |-> "throw", message |-> ScreenshotErrorMessage]

\* executeGeneratedTest: the catch block.
ExecCatch ==
  /\ pc = "exec_catch"
  /\ \E shotOk \in BOOLEAN : execOutcome' = CatchOutcome(isolatedPage, shotOk)
  /\ pc' = "exec_finally"
  /\ trace' = Append(trace, "catch")
  /\ UNCHANGED openIsolated
  /\ UNCHANGED <<pages, pageIdx, expIdx, testResult, testCode, results, exitCode,
                 browsers, isolatedPage, codePassed, called, navLog, synthLog>>
  /\ UNCHANGED <<argRoute, cliError>>
  /\ UNCHANGED <<cookies>>
  /\ UNCHANGED isolatedUrl
  /\ UNCHANGED <<synthOutcomes>>
  /\ UNCHANGED <<codeNavigates>>
  /\ UNCHANGED nonRunVars

\* Mutant: the isolated page is closed on the success path only.
FinallyCloses_OnSuccess(isolated, outcome) ==
  isolated # "null" /\ outcome.result = "true"

\* The finally block's `if (isolatedPage)`: it holds on every way out of the
\* try and catch blocks.
FinallyCloses(isolated, outcome) == isolated # "null"

\* executeGeneratedTest: the finally block closes the isolated page. A rejected
\* close() is caught and logged; the block ends the same way either way.
ExecFinally ==
  /\ pc = "exec_finally"
  /\ IF FinallyCloses(isolatedPage, execOutcome)
       THEN /\ isolatedPage' = "closed"
            /\ openIsolated' = openIsolated - 1
            /\ trace' = Append(trace, "close")
       ELSE UNCHANGED <<isolatedPage, openIsolated, trace>>
  /\ pc' = "record"
  /\ UNCHANGED <<pages, pageIdx, expIdx, testResult, testCode, results, exitCode,
                 browsers, execOutcome, codePassed, called, navLog, synthLog>>
  /\ UNCHANGED <<argRoute, cliError>>
  /\ UNCHANGED <<cookies>>
  /\ UNCHANGED isolatedUrl
  /\ UNCHANGED <<synthOutcomes>>
  /\ UNCHANGED <<codeNavigates>>
  /\ UNCHANGED nonRunVars

\* The entry runPageTest pushes once executeGeneratedTest has ended.
EntryFor(expectation, code, outcome) ==
  IF outcome.result = "throw"
    THEN CaughtEntry(expectation, outcome.message)
    ELSE ExecutedEntry(expectation, code, outcome.result = "true")

\* runPageTest: the push after executeGeneratedTest (try) or in the catch.
RecordExpectation ==
  /\ pc = "record"
  /\ testResult' = PushEntry(testResult,
                      EntryFor(CurrentExpectation, testCode, execOutcome))
  /\ expIdx' = expIdx + 1
  /\ isolatedPage' = "null"
  /\ execOutcome' = NoOutcome
  /\ codePassed' = FALSE
  /\ testCode' = Null
  /\ trace' = <<>>
  /\ isolatedUrl' = BlankUrl
  /\ codeNavigates' = FALSE
  /\ UNCHANGED openIsolated
  /\ pc' = "expect"
  /\ UNCHANGED <<pages, pageIdx, results, exitCode, browsers, called, navLog, synthLog>>
  /\ UNCHANGED <<argRoute, cliError>>
  /\ UNCHANGED <<cookies>>
  /\ UNCHANGED <<synthOutcomes>>
  /\ UNCHANGED nonRunVars

\* runPageTest: after the last expectation, the page's verdict.
SetPageVerdict ==
  /\ pc = "expect"
  /\ expIdx >= Len(testResult.page.expectations)
  /\ testResult' = [testResult EXCEPT !.passed = PageVerdict(testResult)]
  /\ pc' = "finally"
  /\ UNCHANGED <<pages, pageIdx, expIdx, testCode, results, exitCode, browsers,
                 isolatedPage, execOutcome, codePassed, called, navLog, synthLog>>
  /\ UNCHANGED <<trace, openIsolated>>
  /\ UNCHANGED <<argRoute, cliError>>
  /\ UNCHANGED <<cookies>>
  /\ UNCHANGED isolatedUrl
  /\ UNCHANGED <<synthOutcomes>>
  /\ UNCHANGED <<codeNavigates>>
  /\ UNCHANGED nonRunVars

\* runPageTest: finally { browser.close() } and return testResult.
PageFinally ==
  /\ pc = "finally"
  /\ browsers' = browsers - 1
  /\ openIsolated' = 0
  /\ cookies' = {}
  /\ synthOutcomes' = <<>>
  /\ UNCHANGED <<trace, isolatedUrl>>
  /\ pc' = "returned"
  /\ UNCHANGED <<pages, pageIdx, expIdx, testResult, testCode, results, exitCode,
                 isolatedPage, execOutcome, codePassed, called, navLog, synthLog>>
  /\ UNCHANGED <<argRoute, cliError>>
  /\ UNCHANGED <<codeNavigates>>
  /\ UNCHANGED nonRunVars

\* Of a result pushed to results.pages the run reads only the page (its route,
\* for the list of failed pages) and passed: the model keeps these two fields.
Pushed(result) == [page |-> result.page, passed |-> result.passed]

\* Mutant: a failed page is left out of the counters.
CountPage_PassedOnly(res, result) ==
  [res EXCEPT !.passedPages = IF result.passed THEN @ + 1 ELSE @,
              !.pages = Append(@, Pushed(result))]

\* results.pages.push(result) and the two counters (tester.js:582-587).
CountPage(res, result) ==
  [res EXCEPT !.passedPages = IF result.passed THEN @ + 1 ELSE @,
              !.failedPages = IF result.passed THEN @ ELSE @ + 1,
              !.pages = Append(@, Pushed(result))]

\* runAllTests: the counters and results.pages after runPageTest returned.
CountResult ==
  /\ pc = "returned"
  /\ results' = CountPage(results, testResult)
  /\ pageIdx' = pageIdx + 1
  /\ pc' = "loop"
  /\ UNCHANGED <<pages, expIdx, testResult, testCode, exitCode, browsers,
                 isolatedPage, execOutcome, codePassed, called, navLog, synthLog>>
  /\ UNCHANGED <<trace, openIsolated>>
  /\ UNCHANGED <<argRoute, cliError>>
  /\ UNCHANGED <<cookies>>
  /\ UNCHANGED isolatedUrl
  /\ UNCHANGED <<synthOutcomes>>
  /\ UNCHANGED <<codeNavigates>>
  /\ UNCHANGED nonRunVars

ExitCodeOf(res) == IF res.failedPages > 0 THEN 1 ELSE 0

\* runAllTests: the final report and the exit status.
FinalReport ==
  /\ pc = "loop"
  /\ pageIdx >= Len(pages)
  /\ exitCode' = ExitCodeOf(results)
  /\ pc' = "exited"
  /\ UNCHANGED <<pages, pageIdx, expIdx, testResult, testCode, results, browsers,
                 isolatedPage, execOutcome, codePassed, called, navLog, synthLog>>
  /\ UNCHANGED <<trace, openIsolated>>
  /\ UNCHANGED <<argRoute, cliError>>
  /\ UNCHANGED <<cookies>>
  /\ UNCHANGED isolatedUrl
  /\ UNCHANGED <<synthOutcomes>>
  /\ UNCHANGED <<codeNavigates>>
  /\ UNCHANGED nonRunVars

\* cli.js, `test` command: the catch around runAllTests.
CliCatch ==
  /\ pc = "rejected"
  /\ exitCode' = 1
  /\ pc' = "exited"
  /\ UNCHANGED <<pages, pageIdx, expIdx, testResult, testCode, results, browsers,
                 isolatedPage, execOutcome, codePassed, called, navLog, synthLog>>
  /\ UNCHANGED <<trace, openIsolated>>
  /\ UNCHANGED <<argRoute, cliError>>
  /\ UNCHANGED <<cookies>>
  /\ UNCHANGED isolatedUrl
  /\ UNCHANGED <<synthOutcomes>>
  /\ UNCHANGED <<codeNavigates>>
  /\ UNCHANGED nonRunVars

RunNext ==
  \/ RunAllStart
  \/ CallRunPageTest
  \/ LaunchBrowser
  \/ Navigate
  \/ GenerateTestCode
  \/ ExecNewPage
  \/ ExecClearCookies
  \/ ExecGoto
  \/ ExecCode
  \/ ExecCatch
  \/ ExecFinally
  \/ RecordExpectation
  \/ SetPageVerdict
  \/ PageFinally
  \/ CountResult
  \/ FinalReport
  \/ CliCatch

\* ======================================================================
\* cli.js, the `test-page <route>` command
\* ======================================================================

ApiKeyRequiredMessage ==
  "ENSURE_API_KEY environment variable or apiKey option is required"

NotAFunctionMessage == "tester.findPageByRoute is not a function"

\* The routes given on the command line and carried by the project's pages.
RouteArgs == {<<"/">>, <<"/", "about">>, <<"/", "posts", "/", "123">>}

\* The pages with ensureUI comments of the project the command is run in.
RoutedPages ==
  {[route |-> r, expectations |-> Iota(n)] : r \in RouteArgs, n \in 1..MaxExpectations}

TestPageInit ==
  /\ pages \in SeqsUpTo(RoutedPages, MaxPages)
  /\ argRoute \in RouteArgs
  /\ pc = "tp_start"
  /\ cliError = Null
  /\ pageIdx = 0
  /\ expIdx = 0
  /\ testResult = NewTestResult(NoPage)
  /\ testCode = Null
  /\ results = InitialResults
  /\ exitCode = Null
  /\ browsers = 0
  /\ isolatedPage = "null"
  /\ execOutcome = NoOutcome
  /\ codePassed = FALSE
  /\ called = <<>>
  /\ navLog = <<>>
  /\ synthLog = <<>>
  /\ trace = <<>>
  /\ openIsolated = 0
  /\ cookies = {}
  /\ isolatedUrl = BlankUrl
  /\ synthOutcomes = <<>>
  /\ codeNavigates = FALSE

\* new EnsureUITester(options): the constructor throws without an API key.
TestPageConstruct ==
  /\ pc = "tp_start"
  /\ \E hasKey \in BOOLEAN :
       IF hasKey
         THEN pc' = "tp_find" /\ UNCHANGED cliError
         ELSE pc' = "tp_catch" /\ cliError' = ApiKeyRequiredMessage
  /\ UNCHANGED <<pages, pageIdx, expIdx, testResult, testCode, results, exitCode,
                 browsers, isolatedPage, execOutcome, codePassed, called, navLog,
                 synthLog, trace, openIsolated, cookies, isolatedUrl,
                 synthOutcomes, codeNavigates, argRoute>>
  /\ UNCHANGED nonRunVars

\* `await tester.findPageByRoute(route)`: class EnsureUITester defines no
\* method of that name, so the call expression throws a TypeError.
TestPageFind ==
  /\ pc = "tp_find"
  /\ cliError' = NotAFunctionMessage
  /\ pc' = "tp_catch"
  /\ UNCHANGED <<pages, pageIdx, expIdx, testResult, testCode, results, exitCode,
                 browsers, isolatedPage, execOutcome, codePassed, called, navLog,
                 synthLog, trace, openIsolated, cookies, isolatedUrl,
                 synthOutcomes, codeNavigates, argRoute>>
  /\ UNCHANGED nonRunVars

\* The catch block of the command: the message is logged, process.exit(1).
TestPageCatch ==
  /\ pc = "tp_catch"
  /\ exitCode' = 1
  /\ pc' = "exited"
  /\ UNCHANGED <<pages, pageIdx, expIdx, testResult, testCode, results,
                 browsers, isolatedPage, execOutcome, codePassed, called, navLog,
                 synthLog, trace, openIsolated, cookies, isolatedUrl,
                 synthOutcomes, codeNavigates, argRoute, cliError>>
  /\ UNCHANGED nonRunVars

TestPageNext ==
  \/ TestPageConstruct
  \/ TestPageFind
  \/ TestPageCatch

\* ======================================================================
\* run / runFlowTest of the flow-capable revision (src/unnamed/part_003)
\* ======================================================================

NoVariables == [x \in {} |-> ""]

DeclaredVariables == [x \in {"username"} |-> "a@b.com"]

\* The step texts of the flow documents the model runs, as parseFlowFile
\* leaves them: description, url (extractUrl), passed, error, generatedCode.
StepText(k) ==
  CASE k % 3 = 1 -> <<"Navigate", " ", "to", " ", "/login">>
    [] k % 3 = 2 -> <<"Fill", " ", "in", " ", "email", " ", "field", " ",
                      "with", " ", "@", "username">>
    [] OTHER     -> <<"Click", " ", "the", " ", "submit", " ", "button">>

StepUrl(k) == IF k % 3 = 1 THEN "/login" ELSE Null

ParsedStep(k) ==
  [description |-> StepText(k),
   url |-> StepUrl(k),
   passed |-> FALSE,
   error |-> Null,
   generatedCode |-> Null]

ParsedFlow(n, variables) ==
  [name |-> "Login",
   variables |-> variables,
   steps |-> [k \in 1..n |-> ParsedStep(k)],
   passed |-> FALSE,
   error |-> Null]

\* Every flow document of the model declares `@username = a@b.com`.
FlowInputs == {ParsedFlow(n, DeclaredVariables) : n \in 0..MaxSteps}

InitialFlowState ==
  [currentStep |-> 0, variables |-> NoVariables, cookies |-> {}, localStorage |-> {}]

ResetFlowState(flowInfo) ==
  [currentStep |-> 0, variables |-> flowInfo.variables, cookies |-> {},
   localStorage |-> {}]

NewFlowResult == [passed |-> FALSE, screenshots |-> 0, error |-> Null]

EmptySession == [cookies |-> {}, localStorage |-> {}]

FlowIdle ==
  /\ flows = <<>>
  /\ fpc = "idle"
  /\ flowIdx = 0
  /\ stepIdx = 0
  /\ steps = <<>>
  /\ flowResult = NewFlowResult
  /\ flowState = InitialFlowState
  /\ flowResults = <<>>
  /\ flowBrowsers = 0
  /\ session = EmptySession
  /\ flowExit = Null
  /\ synthTexts = <<>>
  /\ attempted = <<>>
  /\ navStatus = 0

FlowInit ==
  /\ flows \in SeqsUpTo(FlowInputs, MaxFlows)
  /\ fpc = "start"
  /\ flowIdx = 0
  /\ stepIdx = 0
  /\ steps = <<>>
  /\ flowResult = NewFlowResult
  /\ flowState = InitialFlowState
  /\ flowResults = <<>>
  /\ flowBrowsers = 0
  /\ session = EmptySession
  /\ flowExit = Null
  /\ synthTexts = <<>>
  /\ attempted = <<>>
  /\ navStatus = 0

\* run, with no page to test: up to the flow loop.
FlowRunStart ==
  /\ fpc = "start"
  /\ IF Len(flows) = 0
       THEN fpc' = "exited" /\ flowExit' = 0
       ELSE fpc' = "flow_loop" /\ UNCHANGED flowExit
  /\ UNCHANGED <<flows, flowIdx, stepIdx, steps, flowResult, flowState,
                 flowResults, flowBrowsers, session, synthTexts, attempted>>
  /\ UNCHANGED <<navStatus>>
  /\ UNCHANGED nonFlowVars

\* run: the flow loop takes the next flow and calls runFlowTest.
CallRunFlowTest ==
  /\ fpc = "flow_loop"
  /\ flowIdx < Len(flows)
  /\ fpc' = "flow_launch"
  /\ UNCHANGED <<flows, flowIdx, stepIdx, steps, flowResult, flowState,
                 flowResults, flowBrowsers, session, flowExit, synthTexts, attempted>>
  /\ UNCHANGED <<navStatus>>
  /\ UNCHANGED nonFlowVars

\* runFlowTest: launch, newContext, newPage (before the try block), then the
\* reset of flowState and the fresh testResult.
FlowLaunch ==
  /\ fpc = "flow_launch"
  /\ \E o \in LaunchOutcomes :
       /\ flowBrowsers' = IF o = "launch_throws" THEN flowBrowsers ELSE flowBrowsers + 1
       /\ IF o = "ok"
            THEN /\ flowState' = ResetFlowState(flows[flowIdx + 1])
                 /\ flowResult' = NewFlowResult
                 /\ steps' = flows[flowIdx + 1].steps
                 /\ stepIdx' = 0
                 /\ session' = EmptySession
                 /\ fpc' = "step_begin"
            ELSE /\ fpc' = "rejected"
                 /\ UNCHANGED <<flowState, flowResult, steps, stepIdx, session>>
  /\ UNCHANGED <<flows, flowIdx, flowResults, flowExit, synthTexts, attempted>>
  /\ UNCHANGED <<navStatus>>
  /\ UNCHANGED nonFlowVars

\* The catch block of a step: passed = false, error = error.message.
StepCaught(ss, k, message) ==
  [ss EXCEPT ![k].passed = FALSE, ![k].error = message]

\* Mutant: a failed step does not end the loop.
FailureTarget_Continue == "step_next"

\* `break`: where the step loop goes once a step has failed.
FailureTarget == "flow_verdict"

BeginOutcomes(step) ==
  IF step.url # Null THEN {"ok", "goto_500", "goto_throws", "content_throws"}
                     ELSE {"ok", "content_throws"}

\* The status of the response page.goto resolved with; runFlowTest does not
\* keep the response.
GotoStatus(step, o) ==
  IF step.url = Null \/ o = "goto_throws" THEN 0
  ELSE IF o = "goto_500" THEN 500 ELSE StatusOK

\* page.goto resolved and page.content was read: the step goes on.
GotoResolved(o) == o \in {"ok", "goto_500"}

\* runFlowTest: the loop takes step i; page.goto when the step has a url,
\* then page.content.
StepBegin ==
  /\ fpc = "step_begin"
  /\ stepIdx < Len(steps)
  /\ attempted' = Append(attempted, <<flowIdx + 1, stepIdx + 1>>)
  /\ \E o \in BeginOutcomes(steps[stepIdx + 1]) :
       /\ navStatus' = GotoStatus(steps[stepIdx + 1], o)
       /\ IF GotoResolved(o)
         THEN fpc' = "step_generate" /\ UNCHANGED steps
         ELSE /\ steps' = StepCaught(steps, stepIdx + 1,
                            IF o = "goto_throws" THEN TimeoutMessage
                                                 ELSE ContentErrorMessage)
              /\ fpc' = FailureTarget
  /\ UNCHANGED <<flows, flowIdx, stepIdx, flowResult, flowState, flowResults,
                 flowBrowsers, session, flowExit, synthTexts>>
  /\ UNCHANGED nonFlowVars

\* The text runFlowTest hands to generateTestCode for a step.
SynthesisText(step, variables) == step.description

\* runFlowTest: generateTestCode(htmlContent, step.description, 'flow').
StepGenerate ==
  /\ fpc = "step_generate"
  /\ synthTexts' = Append(synthTexts,
                     <<flowIdx + 1, stepIdx + 1,
                       SynthesisText(steps[stepIdx + 1], flowState.variables)>>)
  /\ \E ok \in BOOLEAN :
       IF ok
         THEN /\ steps' = [steps EXCEPT ![stepIdx + 1].generatedCode = "code"]
              /\ fpc' = "step_execute"
         ELSE /\ steps' = StepCaught(steps, stepIdx + 1, ApiErrorMessage)
              /\ fpc' = FailureTarget
  /\ UNCHANGED <<flows, flowIdx, stepIdx, flowResult, flowState, flowResults,
                 flowBrowsers, session, flowExit, attempted>>
  /\ UNCHANGED <<navStatus>>
  /\ UNCHANGED nonFlowVars

\* What running the generated code of step k leaves in the browser context:
\* the step's own mark, whether or not the code then passes.
Touched(sess, k) ==
  [cookies |-> sess.cookies \cup {k}, localStorage |-> sess.localStorage \cup {k}]

\* runFlowTest: executeGeneratedTest on the flow's own page (it catches every
\* exception of the code and returns false), then the `if (!stepPassed)`.
StepExecute ==
  /\ fpc = "step_execute"
  /\ session' = Touched(session, stepIdx + 1)
  /\ \E stepPassed \in BOOLEAN :
       IF stepPassed
         THEN /\ steps' = [steps EXCEPT ![stepIdx + 1].passed = TRUE]
              /\ fpc' = "step_screenshot"
         ELSE /\ steps' = [steps EXCEPT ![stepIdx + 1].passed = FALSE,
                                        ![stepIdx + 1].error = "Flow step failed"]
              /\ fpc' = FailureTarget
  /\ UNCHANGED <<flows, flowIdx, stepIdx, flowResult, flowState, flowResults,
                 flowBrowsers, flowExit, synthTexts, attempted>>
  /\ UNCHANGED <<navStatus>>
  /\ UNCHANGED nonFlowVars

\* runFlowTest: the screenshot after a passed step.
StepScreenshot ==
  /\ fpc = "step_screenshot"
  /\ \E ok \in BOOLEAN :
       IF ok
         THEN /\ flowResult' = [flowResult EXCEPT !.screenshots = @ + 1]
              /\ fpc' = "step_cookies"
              /\ UNCHANGED steps
         ELSE /\ steps' = StepCaught(steps, stepIdx + 1, ScreenshotErrorMessage)
              /\ fpc' = FailureTarget
              /\ UNCHANGED flowResult
  /\ UNCHANGED <<flows, flowIdx, stepIdx, flowState, flowResults, flowBrowsers,
                 session, flowExit, synthTexts, attempted>>
  /\ UNCHANGED <<navStatus>>
  /\ UNCHANGED nonFlowVars

\* runFlowTest: this.flowState.cookies = await context.cookies().
StepSaveCookies ==
  /\ fpc = "step_cookies"
  /\ \E ok \in BOOLEAN :
       IF ok
         THEN /\ flowState' = [flowState EXCEPT !.cookies = session.cookies]
              /\ fpc' = "step_storage"
              /\ UNCHANGED steps
         ELSE /\ steps' = StepCaught(steps, stepIdx + 1, CookiesErrorMessage)
              /\ fpc' = FailureTarget
              /\ UNCHANGED flowState
  /\ UNCHANGED <<flows, flowIdx, stepIdx, flowResult, flowResults, flowBrowsers,
                 session, flowExit, synthTexts, attempted>>
  /\ UNCHANGED <<navStatus>>
  /\ UNCHANGED nonFlowVars

\* runFlowTest: this.flowState.localStorage = await page.evaluate(...).
StepSaveStorage ==
  /\ fpc = "step_storage"
  /\ \E ok \in BOOLEAN :
       IF ok
         THEN /\ flowState' = [flowState EXCEPT !.localStorage = session.localStorage]
              /\ fpc' = "step_next"
              /\ UNCHANGED steps
         ELSE /\ steps' = StepCaught(steps, stepIdx + 1, EvaluateErrorMessage)
              /\ fpc' = FailureTarget
              /\ UNCHANGED flowState
  /\ UNCHANGED <<flows, flowIdx, stepIdx, flowResult, flowResults, flowBrowsers,
                 session, flowExit, synthTexts, attempted>>
  /\ UNCHANGED <<navStatus>>
  /\ UNCHANGED nonFlowVars

\* runFlowTest: i++ of the step loop.
StepAdvance ==
  /\ fpc = "step_next"
  /\ stepIdx' = stepIdx + 1
  /\ navStatus' = 0
  /\ fpc' = "step_begin"
  /\ UNCHANGED <<flows, flowIdx, steps, flowResult, flowState, flowResults,
                 flowBrowsers, session, flowExit, synthTexts, attempted>>
  /\ UNCHANGED nonFlowVars

\* runFlowTest: the loop condition fails after the last step.
StepLoopEnd ==
  /\ fpc = "step_begin"
  /\ stepIdx >= Len(steps)
  /\ fpc' = "flow_verdict"
  /\ UNCHANGED <<flows, flowIdx, stepIdx, steps, flowResult, flowState, flowResults,
                 flowBrowsers, session, flowExit, synthTexts, attempted>>
  /\ UNCHANGED <<navStatus>>
  /\ UNCHANGED nonFlowVars

\* Mutant: one passed step is enough for the flow to pass.
EveryStepPassed_Any(ss) == \E k \in 1..Len(ss) : ss[k].passed

EveryStepPassed(ss) == \A k \in 1..Len(ss) : ss[k].passed

\* runFlowTest: testResult.passed = testResult.steps.every(step => step.passed).
FlowVerdict ==
  /\ fpc = "flow_verdict"
  /\ flowResult' = [flowResult EXCEPT !.passed = EveryStepPassed(steps)]
  /\ navStatus' = 0
  /\ fpc' = "flow_finally"
  /\ UNCHANGED <<flows, flowIdx, stepIdx, steps, flowState, flowResults,
                 flowBrowsers, session, flowExit, synthTexts, attempted>>
  /\ UNCHANGED nonFlowVars

\* runFlowTest: finally { browser.close() } and return testResult.  The
\* browser context, its cookies and its storage end with the browser.
FlowFinally ==
  /\ fpc = "flow_finally"
  /\ flowBrowsers' = flowBrowsers - 1
  /\ session' = EmptySession
  /\ fpc' = "flow_returned"
  /\ UNCHANGED <<flows, flowIdx, stepIdx, steps, flowResult, flowState, flowResults,
                 flowExit, synthTexts, attempted>>
  /\ UNCHANGED <<navStatus>>
  /\ UNCHANGED nonFlowVars

ReturnedFlow(flowInfo, ss, res) ==
  [name |-> flowInfo.name,
   variables |-> flowInfo.variables,
   steps |-> ss,
   passed |-> res.passed,
   error |-> res.error]

\* run: this.results.flows[indexOf(flowInfo)] = result.
RecordFlow ==
  /\ fpc = "flow_returned"
  /\ flowResults' = Append(flowResults,
                      ReturnedFlow(flows[flowIdx + 1], steps, flowResult))
  /\ flowIdx' = flowIdx + 1
  /\ fpc' = "flow_loop"
  /\ UNCHANGED <<flows, stepIdx, steps, flowResult, flowState, flowBrowsers,
                 session, flowExit, synthTexts, attempted>>
  /\ UNCHANGED <<navStatus>>
  /\ UNCHANGED nonFlowVars

FlowExitCode(rs) == IF \E k \in 1..Len(rs) : ~rs[k].passed THEN 1 ELSE 0

\* run: the report and the exit status after the last flow.
FlowReport ==
  /\ fpc = "flow_loop"
  /\ flowIdx >= Len(flows)
  /\ flowExit' = FlowExitCode(flowResults)
  /\ fpc' = "exited"
  /\ UNCHANGED <<flows, flowIdx, stepIdx, steps, flowResult, flowState, flowResults,
                 flowBrowsers, session, synthTexts, attempted>>
  /\ UNCHANGED <<navStatus>>
  /\ UNCHANGED nonFlowVars

\* tester.run().catch(...): an exception that left run() ends the process.
FlowRunCatch ==
  /\ fpc = "rejected"
  /\ flowExit' = 1
  /\ fpc' = "exited"
  /\ UNCHANGED <<flows, flowIdx, stepIdx, steps, flowResult, flowState, flowResults,
                 flowBrowsers, session, synthTexts, attempted>>
  /\ UNCHANGED <<navStatus>>
  /\ UNCHANGED nonFlowVars

FlowNext ==
  \/ FlowRunStart
  \/ CallRunFlowTest
  \/ FlowLaunch
  \/ StepBegin
  \/ StepGenerate
  \/ StepExecute
  \/ StepScreenshot
  \/ StepSaveCookies
  \/ StepSaveStorage
  \/ StepAdvance
  \/ StepLoopEnd
  \/ FlowVerdict
  \/ FlowFinally
  \/ RecordFlow
  \/ FlowReport
  \/ FlowRunCatch

RunIdle ==
  /\ pages = <<>>
  /\ pc = "idle"
  /\ pageIdx = 0
  /\ expIdx = 0
  /\ testResult = NewTestResult(NoPage)
  /\ testCode = Null
  /\ results = InitialResults
  /\ exitCode = Null
  /\ browsers = 0
  /\ isolatedPage = "null"
  /\ execOutcome = NoOutcome
  /\ codePassed = FALSE
  /\ called = <<>>
  /\ navLog = <<>>
  /\ synthLog = <<>>
  /\ trace = <<>>
  /\ openIsolated = 0
  /\ argRoute = Null
  /\ cliError = Null
  /\ cookies = {}
  /\ isolatedUrl = BlankUrl
  /\ synthOutcomes = <<>>
  /\ codeNavigates = FALSE

\* ======================================================================
\* extractEnsureUIComments, merge pass (src/lib/tester.js)
\* ======================================================================

Whitespace == {" ", "\t"}

\* /ensureUI/i : the marker in any letter case.
IsMarker(x) == x \in {"ensureUI", "ensureui", "ENSUREUI"}

\* The lines of the files the model reads.
LineCatalogue ==
  { <<"//", " ", "ensureUI", ":", " ", "a">>,            \* // ensureUI: a
    <<"//", " ", "ensureUI">>,                           \* // ensureUI
    <<"//", " ", "b">>,                                  \* // b
    <<"x">>,                                             \* x
    <<"x", " ", "//", " ", "c">>,                        \* x // c
    <<>>,                                                \* (blank)
    <<" ", "//", "ensureui", " ", "b", " ", " ", "c", " ">>, \* _//ensureui b  c_
    <<"//">>,                                            \* //
    <<"x", " ", "//", " ", "ensureUI", ":", "d">> }      \* x // ensureUI:d

RECURSIVE TrimStart(_)
TrimStart(s) ==
  IF s = <<>> \/ Head(s) \notin Whitespace THEN s ELSE TrimStart(Tail(s))

RECURSIVE TrimEnd(_)
TrimEnd(s) ==
  IF s = <<>> \/ s[Len(s)] \notin Whitespace THEN s
  ELSE TrimEnd(SubSeq(s, 1, Len(s) - 1))

\* String.prototype.trim
Trim(s) == TrimEnd(TrimStart(s))

After(s, p) == SubSeq(s, p + 1, Len(s))

NoMatch == [matched |-> FALSE, capture |-> <<>>]

\* \s*(.+) applied to the text r: the white space is skipped greedily and the
\* group takes the rest; if nothing but white space is left, the group takes
\* its last character.
RestCapture(r) ==
  IF TrimStart(r) # <<>> THEN TrimStart(r) ELSE <<r[Len(r)]>>

\* /\/\/\s*ensureUI/i matches at the `//` at position p.
MarkerAt(s, p) ==
  /\ s[p] = "//"
  /\ TrimStart(After(s, p)) # <<>>
  /\ IsMarker(Head(TrimStart(After(s, p))))

\* /\/\/\s*ensureUI\s*(.+)/i matches at the `//` at position p.
SingleLineAt(s, p) ==
  /\ MarkerAt(s, p)
  /\ Tail(TrimStart(After(s, p))) # <<>>

Leftmost(ps) == CHOOSE p \in ps : \A q \in ps : p <= q

\* line.match(/\/\/\s*ensureUI\s*(.+)/i)
SingleLineMatch(s) ==
  LET ps == {p \in 1..Len(s) : SingleLineAt(s, p)}
  IN  IF ps = {} THEN NoMatch
      ELSE [matched |-> TRUE,
            capture |-> RestCapture(Tail(TrimStart(After(s, Leftmost(ps)))))]

\* nextLine.match(/\/\/\s*(.+)/)
ContinuationMatch(s) ==
  LET ps == {p \in 1..Len(s) : s[p] = "//" /\ After(s, p) # <<>>}
  IN  IF ps = {} THEN NoMatch
      ELSE [matched |-> TRUE, capture |-> RestCapture(After(s, Leftmost(ps)))]

\* nextLine.match(/\/\/\s*ensureUI/i)
MarkerTest(s) == \E p \in 1..Len(s) : MarkerAt(s, p)

\* The condition of the `while` body: nextLine continues the block.
Continues(nextLine) ==
  ContinuationMatch(nextLine).matched /\ ~MarkerTest(nextLine)

\* Mutant: the parts are joined without a separator.
AppendContinuation_NoSpace(full, part) == full \o part

\* fullExpectation += ' ' + continuationMatch[1].trim()
AppendContinuation(full, part) == full \o <<" ">> \o part

\* i = currentLine - 1
ResumeIndex(cur) == cur - 1

MergeStart ==
  /\ mpc = "scan"
  /\ lineIdx = 0
  /\ currentLine = 0
  /\ startLineNumber = 0
  /\ fullExpectation = <<>>
  /\ rawComments = <<>>
  /\ examined = {}
  /\ blocks = <<>>

MergeIdle ==
  /\ lines = <<>>
  /\ mpc = "idle"
  /\ lineIdx = 0
  /\ currentLine = 0
  /\ startLineNumber = 0
  /\ fullExpectation = <<>>
  /\ rawComments = <<>>
  /\ examined = {}
  /\ blocks = <<>>

MergeInit ==
  /\ lines \in SeqsUpTo(LineCatalogue, MaxLines)
  /\ MergeStart

\* One turn of the `for` loop up to the `while`: the line is tested for a
\* start marker; a match opens a block, anything else moves to the next line.
ScanLine ==
  /\ mpc = "scan"
  /\ lineIdx < Len(lines)
  /\ LET m == SingleLineMatch(Trim(lines[lineIdx + 1]))
     IN  /\ examined' = examined \cup {lineIdx}
         /\ IF m.matched
            THEN /\ startLineNumber' = lineIdx + 1
                 /\ fullExpectation' = Trim(m.capture)
                 /\ currentLine' = lineIdx + 1
                 /\ blocks' = Append(blocks, [start |-> lineIdx, consumed |-> <<>>])
                 /\ mpc' = "block"
                 /\ UNCHANGED lineIdx
            ELSE /\ lineIdx' = lineIdx + 1
                 /\ UNCHANGED <<startLineNumber, fullExpectation, currentLine,
                                blocks, mpc>>
  /\ UNCHANGED <<lines, rawComments>>

\* One turn of the `while` loop that takes the next line into the block.
ConsumeLine ==
  /\ mpc = "block"
  /\ currentLine < Len(lines)
  /\ Continues(Trim(lines[currentLine + 1]))
  /\ fullExpectation' =
       AppendContinuation(fullExpectation,
                          Trim(ContinuationMatch(Trim(lines[currentLine + 1])).capture))
  /\ currentLine' = currentLine + 1
  /\ blocks' = [blocks EXCEPT ![Len(blocks)].consumed = Append(@, currentLine)]
  /\ UNCHANGED <<lines, mpc, lineIdx, startLineNumber, rawComments, examined>>

\* The `while` loop ends (end of file or `break`); the block is pushed and the
\* `for` loop goes on from i = currentLine - 1, i++.
EndBlock ==
  /\ mpc = "block"
  /\ \/ currentLine >= Len(lines)
     \/ /\ currentLine < Len(lines)
        /\ ~Continues(Trim(lines[currentLine + 1]))
  /\ rawComments' = Append(rawComments, [text |-> fullExpectation,
                                         lineNumber |-> startLineNumber])
  /\ lineIdx' = ResumeIndex(currentLine) + 1
  /\ mpc' = "scan"
  /\ currentLine' = 0
  /\ startLineNumber' = 0
  /\ fullExpectation' = <<>>
  /\ UNCHANGED <<lines, examined, blocks>>

\* The `for` loop ends.
ScanDone ==
  /\ mpc = "scan"
  /\ lineIdx >= Len(lines)
  /\ mpc' = "merged"
  /\ UNCHANGED <<lines, lineIdx, currentLine, startLineNumber, fullExpectation,
                 rawComments, examined, blocks>>

MergeNext ==
  \/ ScanLine /\ UNCHANGED nonMergeVars
  \/ ConsumeLine /\ UNCHANGED nonMergeVars
  \/ EndBlock /\ UNCHANGED nonMergeVars
  \/ ScanDone /\ UNCHANGED nonMergeVars

\* ======================================================================
\* splitExpectations (src/lib/tester.js)
\* ======================================================================

\* JSON values, tagged by their type.
JsonString(s) == [type |-> "string", str |-> s]

JsonNumber(n) == [type |-> "number", num |-> n]

JsonNull == [type |-> "null"]

JsonArray(items) == [type |-> "array", items |-> items]

JsonObject(fields) == [type |-> "object", fields |-> fields]

Undefined == [type |-> "undefined"]

\* A text that JSON.parse rejects.
NotJson == [type |-> "invalid"]

NoParams == [key \in {} |-> Undefined]

OneParam(key, value) == [k \in {key} |-> JsonString(value)]

SplitObject(exps, params) ==
  JsonObject([k \in {"expectations", "urlParams"} |->
                IF k = "expectations" THEN exps ELSE params])

Strings(texts) == JsonArray([k \in 1..Len(texts) |-> JsonString(texts[k])])

\* What generateText may give splitExpectations: an exception, or a text that
\* holds a JSON value (or none), with or without a ```json fence around it.
ApiFailure == [kind |-> "throws", fenced |-> FALSE, body |-> NotJson]

Answer(fenced, body) == [kind |-> "text", fenced |-> fenced, body |-> body]

RejectedAnswers ==
  { Answer(FALSE, NotJson),                                            \* Sure! Here are ...
    Answer(FALSE, JsonNull),                                           \* null
    Answer(TRUE, Strings(<< <<"a">>, <<"b">> >>)),                     \* ["a","b"]
    Answer(FALSE, JsonObject([k \in {"urlParams"} |-> JsonObject(NoParams)])),
    Answer(FALSE, SplitObject(JsonString(<<"a">>), JsonObject(NoParams))),
    Answer(FALSE, SplitObject(JsonArray(<<JsonString(<<"a">>), JsonNumber(5)>>),
                              JsonObject(OneParam("id", <<"9">>)))),
    Answer(FALSE, JsonObject([k \in {"expectations"} |-> Strings(<< <<"a">> >>)])),
    Answer(TRUE, SplitObject(Strings(<< <<"a">> >>), JsonNull)),
    Answer(FALSE, SplitObject(Strings(<< <<"a">> >>), JsonString(<<"id", " ", "5">>))) }

AcceptedAnswers ==
  { Answer(TRUE, SplitObject(Strings(<< <<"a">> >>), JsonObject(NoParams))),
    Answer(FALSE, SplitObject(Strings(<< <<" ", "a", " ">>, <<"b">> >>),
                              JsonObject(OneParam("id", <<"123">>)))),
    Answer(FALSE, SplitObject(Strings(<< <<"a">> >>), JsonObject(OneParam("id", <<>>)))),
    Answer(FALSE, SplitObject(Strings(<< <<"a">> >>), JsonObject(OneParam("slug", <<"x">>)))),
    Answer(FALSE, SplitObject(Strings(<<>>), JsonObject(NoParams))),
    Answer(FALSE, SplitObject(Strings(<< <<"b">> >>), JsonArray(<<>>))) }

Responses == {ApiFailure} \cup RejectedAnswers \cup AcceptedAnswers

\* result.replace(/```json\n?/g, '').replace(/```/g, '').trim()
CleanResult(answer) == answer.body

\* parsed.<name>
GetProp(v, name) ==
  IF v.type = "object" /\ name \in DOMAIN v.fields THEN v.fields[name]
  ELSE Undefined

\* !v
Falsy(v) ==
  \/ v.type \in {"undefined", "null"}
  \/ v.type = "string" /\ v.str = <<>>
  \/ v.type = "number" /\ v.num = 0

\* typeof v
TypeOf(v) ==
  IF v.type \in {"object", "array", "null"} THEN "object" ELSE v.type

\* The properties the spread of v copies: an object's own fields, an array's
\* elements under their indices.
OwnFields(v) ==
  IF v.type = "object" THEN v.fields
  ELSE IF v.type = "array"
       THEN [k \in {ToString(j - 1) : j \in 1..Len(v.items)} |->
               v.items[CHOOSE j \in 1..Len(v.items) : ToString(j - 1) = k]]
       ELSE NoParams

\* Mutant: the catch block returns no expectation.
SplitFallback_Empty(commentText) ==
  [thrown |-> FALSE, expectations |-> <<>>, urlParams |-> NoParams]

\* The catch block of splitExpectations.
SplitFallback(commentText) ==
  [thrown |-> FALSE, expectations |-> <<commentText>>, urlParams |-> NoParams]

\* The condition of the `throw new Error('Invalid response format from LLM')`.
InvalidFormat(parsed) ==
  \/ Falsy(GetProp(parsed, "expectations"))
  \/ GetProp(parsed, "expectations").type # "array"
  \/ \E k \in 1..Len(GetProp(parsed, "expectations").items) :
       GetProp(parsed, "expectations").items[k].type # "string"
  \/ TypeOf(GetProp(parsed, "urlParams")) # "object"
  \/ GetProp(parsed, "urlParams").type = "null"

\* splitExpectations(commentText), the collaborator answering `answer`.
SplitExpectations(commentText, answer) ==
  IF answer.kind = "throws" THEN SplitFallback(commentText)
  ELSE IF CleanResult(answer).type = "invalid" THEN SplitFallback(commentText)
  ELSE IF CleanResult(answer).type = "null" THEN SplitFallback(commentText)
  ELSE IF InvalidFormat(CleanResult(answer)) THEN SplitFallback(commentText)
  ELSE [thrown |-> FALSE,
        expectations |->
          [k \in 1..Len(GetProp(CleanResult(answer), "expectations").items) |->
             GetProp(CleanResult(answer), "expectations").items[k].str],
        urlParams |-> OwnFields(GetProp(CleanResult(answer), "urlParams"))]

\* { ...allUrlParams, ...result.urlParams }
Spread(all, params) ==
  [k \in DOMAIN all \cup DOMAIN params |->
     IF k \in DOMAIN params THEN params[k] ELSE all[k]]

\* ======================================================================
\* getRouteFromPath (src/lib/tester.js)
\* ======================================================================

ProjectRoot == <<"/", "repo">>

DeploymentUrl == <<"https://preview.example.com">>

Extensions == {".js", ".jsx", ".ts", ".tsx"}

StartsWith(s, pre) == Len(s) >= Len(pre) /\ SubSeq(s, 1, Len(pre)) = pre

EndsWith(s, suf) ==
  Len(s) >= Len(suf) /\ SubSeq(s, Len(s) - Len(suf) + 1, Len(s)) = suf

\* s.replace(/^pre/, '')
StripPrefix(s, pre) ==
  IF StartsWith(s, pre) THEN SubSeq(s, Len(pre) + 1, Len(s)) ELSE s

\* s.replace(/suf$/, '')
StripSuffix(s, suf) ==
  IF EndsWith(s, suf) THEN SubSeq(s, 1, Len(s) - Len(suf)) ELSE s

\* s.replace(/^whole$/, '')
StripWhole(s, whole) == IF s = whole THEN <<>> ELSE s

\* s.replace(/\\/g, '/')
NormalizeSlashes(s) == [k \in 1..Len(s) |-> IF s[k] = "\\" THEN "/" ELSE s[k]]

\* s.replace(/^\/+/, '')
RECURSIVE StripLeadingSlashes(_)
StripLeadingSlashes(s) ==
  IF s # <<>> /\ Head(s) = "/" THEN StripLeadingSlashes(Tail(s)) ELSE s

\* The position of the first `close` after position p, 0 if there is none.
FirstAfter(s, p, close) ==
  IF \E q \in (p + 1)..Len(s) : s[q] = close
  THEN CHOOSE q \in (p + 1)..Len(s) :
         s[q] = close /\ \A r \in (p + 1)..(q - 1) : s[r] # close
  ELSE 0

\* s.replace(/\([^)]+\)\//g, '')
RECURSIVE StripGroups(_)
StripGroups(s) ==
  IF s = <<>> THEN <<>>
  ELSE LET q == FirstAfter(s, 1, ")")
       IN  IF s[1] = "(" /\ q >= 3 /\ q < Len(s) /\ s[q + 1] = "/"
           THEN StripGroups(SubSeq(s, q + 2, Len(s)))
           ELSE <<s[1]>> \o StripGroups(Tail(s))

\* s.replace(/\.(js|jsx|ts|tsx)$/, '')
StripExtension(s) ==
  IF s # <<>> /\ s[Len(s)] \in Extensions THEN SubSeq(s, 1, Len(s) - 1) ELSE s

\* Lines 183-200: the route before its dynamic segments are resolved.
StaticRoute(filePath) ==
  LET r1 == StripPrefix(NormalizeSlashes(filePath),
                        StripSuffix(NormalizeSlashes(ProjectRoot), <<"/">>))
      r2 == StripLeadingSlashes(r1)
      r3 == StripPrefix(StripPrefix(StripPrefix(r2, <<"src", "/">>),
                                    <<"pages", "/">>), <<"app", "/">>)
      r4 == StripExtension(StripGroups(r3))
      r5 == StripWhole(StripSuffix(r4, <<"/", "page">>), <<"page">>)
  IN  StripWhole(StripSuffix(r5, <<"/", "index">>), <<"index">>)

\* param.startsWith('...') ? param.slice(3) : param
CleanParam(param) ==
  IF param # <<>> /\ Head(param) = "..." THEN Tail(param) ELSE param

\* The property name a (one-word) parameter name is.
KeyOf(name) == IF Len(name) = 1 THEN name[1] ELSE ""

\* The text String.prototype.replace puts in for the value the callback returned.
TextOf(v) ==
  IF v.type = "string" THEN v.str
  ELSE IF v.type = "null" THEN <<"null">>
  ELSE IF v.type = "number" THEN <<ToString(v.num)>>
  ELSE <<"[object Object]">>

Resolved(route) == [thrown |-> FALSE, route |-> route, param |-> <<>>]

ParameterError(param) == [thrown |-> TRUE, route |-> <<>>, param |-> param]

\* urlParams[cleanParam] !== undefined
Supplied(urlParams, param) == KeyOf(CleanParam(param)) \in DOMAIN urlParams

\* Lines 202-211: route.replace(/\[([^\]]+)\]/g, callback), left to right;
\* `done` is the text already produced.
RECURSIVE ResolveSegments(_, _, _)
ResolveSegments(done, rest, urlParams) ==
  IF rest = <<>> THEN Resolved(done)
  ELSE LET q == FirstAfter(rest, 1, "]")
       IN  IF rest[1] = "[" /\ q >= 3
           THEN IF Supplied(urlParams, SubSeq(rest, 2, q - 1))
                THEN ResolveSegments(
                       done \o TextOf(urlParams[KeyOf(CleanParam(SubSeq(rest, 2, q - 1)))]),
                       SubSeq(rest, q + 1, Len(rest)), urlParams)
                ELSE ParameterError(SubSeq(rest, 2, q - 1))
           ELSE ResolveSegments(Append(done, rest[1]), Tail(rest), urlParams)

\* if (!route.startsWith('/')) route = '/' + route
WithLeadingSlash(route) ==
  IF route # <<>> /\ Head(route) = "/" THEN route ELSE <<"/">> \o route

\* getRouteFromPath(filePath, urlParams)
GetRouteFromPath(filePath, urlParams) ==
  LET r == ResolveSegments(<<>>, StaticRoute(filePath), urlParams)
  IN  IF r.thrown THEN r ELSE Resolved(WithLeadingSlash(r.route))

\* ======================================================================
\* scanDirectory / extractEnsureUIComments, split loop (src/lib/tester.js)
\* ======================================================================

PathOf(relative) == ProjectRoot \o <<"/">> \o relative

SourceFile(relative, content) == [path |-> PathOf(relative), content |-> content]

MarkedLine == <<"//", " ", "ensureUI", ":", " ", "a">>

\* The files of the projects the model scans, in readdirSync order.
FileCatalogue ==
  { SourceFile(<<"app", "/", "page", ".js">>, <<MarkedLine>>),
    SourceFile(<<"app", "/", "posts", "/", "[", "id", "]", "/", "page", ".js">>,
               <<MarkedLine>>),
    SourceFile(<<"pages", "/", "docs", "/", "[", "...", "slug", "]", ".tsx">>,
               <<MarkedLine, <<"//", " ", "b">>, <<"x">>,
                 <<" ", "//", "ensureui", " ", "b", " ", " ", "c", " ">> >>),
    SourceFile(<<"src", "/", "app", "/", "(", "shop", ")", "/", "about", "/", "index", ".jsx">>,
               <<MarkedLine>>),
    SourceFile(<<"app", "/", "layout", ".js">>, << <<"x">>, <<"//", " ", "b">> >>),
    SourceFile(<<"app", "/", "globals", ".css">>, << <<"x">> >>) }

\* isPageFile(item): the third pattern, /\.(js|jsx|ts|tsx)$/, covers the others.
IsPageFile(path) == path # <<>> /\ path[Len(path)] \in Extensions

CurrentFile == files[fileIdx + 1]

SplitStart ==
  /\ commentIdx = 0
  /\ responses = <<>>
  /\ expectations = <<>>
  /\ allUrlParams = NoParams

ScanIdle ==
  /\ files = <<>>
  /\ spc = "idle"
  /\ fileIdx = 0
  /\ SplitStart
  /\ discovered = <<>>
  /\ paramErrors = <<>>

\* A directory tree holds a path once.
ScanInit ==
  /\ files \in {fs \in SeqsUpTo(FileCatalogue, MaxFiles) :
                  \A j, k \in 1..Len(fs) : j # k => fs[j].path # fs[k].path}
  /\ spc = "dir"
  /\ fileIdx = 0
  /\ SplitStart
  /\ discovered = <<>>
  /\ paramErrors = <<>>
  /\ MergeIdle

\* scanDirectory: an item that is no page file is passed over.
SkipItem ==
  /\ spc = "dir"
  /\ fileIdx < Len(files)
  /\ ~IsPageFile(CurrentFile.path)
  /\ fileIdx' = fileIdx + 1
  /\ UNCHANGED <<files, spc, commentIdx, responses, expectations, allUrlParams,
                 discovered, paramErrors>>
  /\ UNCHANGED mergeVars

\* scanDirectory calls extractEnsureUIComments on a page file: readFileSync
\* gives the lines, or throws and the outer catch returns [[], '', {}].
ReadFile ==
  /\ spc = "dir"
  /\ fileIdx < Len(files)
  /\ IsPageFile(CurrentFile.path)
  /\ \E readOk \in BOOLEAN :
       IF readOk
       THEN /\ lines' = CurrentFile.content
            /\ mpc' = "scan"
            /\ spc' = "extract"
       ELSE /\ UNCHANGED <<lines, mpc>>
            /\ spc' = "extracted"
  /\ UNCHANGED <<files, fileIdx, commentIdx, responses, expectations,
                 allUrlParams, discovered, paramErrors>>
  /\ UNCHANGED <<lineIdx, currentLine, startLineNumber, fullExpectation,
                 rawComments, examined, blocks>>

ExpectationOf(text, comment) ==
  [text |-> Trim(text), lineNumber |-> comment.lineNumber,
   originalComment |-> comment.text]

\* Lines 146-154: the expectations of one split result, in order.
SplitEntries(result, comment) ==
  [k \in 1..Len(result.expectations) |-> ExpectationOf(result.expectations[k], comment)]

\* Lines 155-162: the catch block of the split loop.
CaughtSplitEntries(comment) ==
  <<[text |-> comment.text, lineNumber |-> comment.lineNumber,
     originalComment |-> comment.text]>>

\* One turn of `for (const comment of rawComments)`.
SplitComment ==
  /\ spc = "extract"
  /\ mpc = "merged"
  /\ commentIdx < Len(rawComments)
  /\ \E answer \in Responses :
       LET comment == rawComments[commentIdx + 1]
           result == SplitExpectations(comment.text, answer)
       IN  /\ responses' = Append(responses, answer)
           /\ IF result.thrown
              THEN /\ expectations' = expectations \o CaughtSplitEntries(comment)
                   /\ UNCHANGED allUrlParams
              ELSE /\ allUrlParams' = Spread(allUrlParams, result.urlParams)
                   /\ expectations' = expectations \o SplitEntries(result, comment)
  /\ commentIdx' = commentIdx + 1
  /\ UNCHANGED <<files, fileIdx, spc, discovered, paramErrors>>
  /\ UNCHANGED mergeVars

\* The split loop ends: extractEnsureUIComments returns.
ExtractReturn ==
  /\ spc = "extract"
  /\ mpc = "merged"
  /\ commentIdx >= Len(rawComments)
  /\ spc' = "extracted"
  /\ UNCHANGED <<files, fileIdx, commentIdx, responses, expectations,
                 allUrlParams, discovered, paramErrors>>
  /\ UNCHANGED mergeVars

RECURSIVE JoinLines(_)
\* rawComments.map(c => c.text).join('\n')
JoinLines(comments) ==
  IF comments = <<>> THEN <<>>
  ELSE IF Len(comments) = 1 THEN comments[1].text
  ELSE comments[1].text \o <<"\n">> \o JoinLines(Tail(comments))

PageInfo(file, route) ==
  [filePath |-> file.path,
   route |-> route,
   url |-> DeploymentUrl \o route,
   rawExpectations |-> JoinLines(rawComments),
   expectations |-> expectations]

\* Mutant: a file is given a route and pushed whatever was extracted from it.
HasExpectations_Always(exps) == TRUE

\* scanDirectory: `if (expectations.length > 0)`.
HasExpectations(exps) == Len(exps) > 0

\* Mutant: a parameter error ends the scan.
AfterParameterError_Stops == "done"

\* `continue` in the catch of scanDirectory: the loop takes the next item.
AfterParameterError == "dir"

\* Lines 85-99 of scanDirectory: a file with expectations is given its route
\* and pushed, or its parameter error is logged; then the next item.
ResolveRoute ==
  /\ spc = "extracted"
  /\ LET r == GetRouteFromPath(CurrentFile.path, allUrlParams)
     IN  IF HasExpectations(expectations)
         THEN IF r.thrown
              THEN /\ paramErrors' = Append(paramErrors,
                                            [filePath |-> CurrentFile.path,
                                             param |-> r.param])
                   /\ UNCHANGED discovered
              ELSE /\ discovered' = Append(discovered, PageInfo(CurrentFile, r.route))
                   /\ UNCHANGED paramErrors
         ELSE UNCHANGED <<discovered, paramErrors>>
  /\ fileIdx' = fileIdx + 1
  /\ spc' = IF /\ HasExpectations(expectations)
               /\ GetRouteFromPath(CurrentFile.path, allUrlParams).thrown
              THEN AfterParameterError
              ELSE "dir"
  /\ commentIdx' = 0
  /\ responses' = <<>>
  /\ expectations' = <<>>
  /\ allUrlParams' = NoParams
  /\ lines' = <<>>
  /\ mpc' = "idle"
  /\ rawComments' = <<>>
  /\ examined' = {}
  /\ blocks' = <<>>
  /\ UNCHANGED <<files, lineIdx, currentLine, startLineNumber, fullExpectation>>

\* The `for (const item of items)` loops have ended.
ScanEnd ==
  /\ spc = "dir"
  /\ fileIdx >= Len(files)
  /\ spc' = "done"
  /\ UNCHANGED <<files, fileIdx, commentIdx, responses, expectations,
                 allUrlParams, discovered, paramErrors>>
  /\ UNCHANGED mergeVars

ScanNext ==
  \/ SkipItem /\ UNCHANGED nonScanVars
  \/ ReadFile /\ UNCHANGED nonScanVars
  \/ ScanLine /\ UNCHANGED nonMergeVars
  \/ ConsumeLine /\ UNCHANGED nonMergeVars
  \/ EndBlock /\ UNCHANGED nonMergeVars
  \/ ScanDone /\ UNCHANGED nonMergeVars
  \/ SplitComment /\ UNCHANGED nonScanVars
  \/ ExtractReturn /\ UNCHANGED nonScanVars
  \/ ResolveRoute /\ UNCHANGED nonScanVars
  \/ ScanEnd /\ UNCHANGED nonScanVars

\* ======================================================================
\* parseFlowFile of the flow-capable revision (src/unnamed/part_003)
\* ======================================================================

\* The lexeme of three backquotes that opens or closes a fenced code block.
Fence == "<fence>"

\* The lines a flow document of the model is made of.
FlowLineCatalogue ==
  { <<>>,
    <<Fence>>,
    <<"#", " ", "Login">>,
    <<" ", "1", ".", " ", "Navigate", " ", "to", " ", "/login">>,
    <<"2", ".", " ", "Click", " ", "submit">>,
    <<"@", "username", " ", "=", " ", "a@b.com">>,
    <<">", " ", "Sign", " ", "in">> }

Digits == {"1", "2"}

ParseIdle ==
  /\ doc = <<>>
  /\ ppc = "idle"
  /\ docIdx = 0
  /\ inCodeBlock = FALSE
  /\ currentFlow = <<>>
  /\ parsedFlows = <<>>

ParseInit ==
  /\ doc \in SeqsUpTo(FlowLineCatalogue, MaxDocLines)
  /\ ppc = "lines"
  /\ docIdx = 0
  /\ inCodeBlock = FALSE
  /\ currentFlow = <<>>
  /\ parsedFlows = <<>>

\* !line || line.startsWith(<three backquotes>)
TogglesCodeBlock(line) == line = <<>> \/ StartsWith(line, <<Fence>>)

\* line.match(/^(\d+)\. (.+)/)
StepMatch(line) ==
  IF Len(line) >= 4 /\ line[1] \in Digits /\ line[2] = "." /\ line[3] = " "
    THEN [matched |-> TRUE, capture |-> After(line, 3)]
    ELSE NoMatch

\* extractUrl: /(?:navigate to|go to|visit|on page)\s+([\w\/\-]+)/i, the path
\* prefixed with the deployment URL; <<>> stands for null.
ExtractUrl(stepDescription) ==
  LET hits == {k \in 1..(Len(stepDescription) - 4) :
                 /\ stepDescription[k] \in {"Navigate", "navigate"}
                 /\ stepDescription[k + 1] = " "
                 /\ stepDescription[k + 2] = "to"
                 /\ stepDescription[k + 3] = " "}
  IN  IF hits = {} THEN <<>>
      ELSE DeploymentUrl \o <<stepDescription[Leftmost(hits) + 4]>>

NewFlow(name) == [name |-> name, description |-> <<>>, steps |-> <<>>, variables |-> NoVariables]

NewStep(stepDescription) ==
  [description |-> stepDescription,
   url |-> ExtractUrl(stepDescription),
   passed |-> FALSE,
   error |-> Null,
   generatedCode |-> Null]

\* line.match(/@(\w+)\s*=\s*(.+)/) on a line that starts with `@`, and the
\* assignment variables[name] = value.
WithVariable(variables, line) ==
  IF Len(line) >= 6 /\ line[3] = " " /\ line[4] = "=" /\ line[5] = " "
    THEN [x \in DOMAIN variables \cup {line[2]} |->
            IF x = line[2] THEN line[6] ELSE variables[x]]
    ELSE variables

\* The body of the for loop for one line that is outside a code block.
ParsedLine(flow, line) ==
  IF StartsWith(line, <<">", " ">>)
    THEN [flow EXCEPT !.description = @ \o After(line, 2) \o <<" ">>]
  ELSE IF StartsWith(line, <<"@">>)
    THEN [flow EXCEPT !.variables = WithVariable(@, line)]
  ELSE IF StepMatch(line).matched
    THEN [flow EXCEPT !.steps = Append(@, NewStep(StepMatch(line).capture))]
  ELSE flow

\* One iteration of the for loop of parseFlowFile.
ParseLine ==
  /\ ppc = "lines"
  /\ docIdx < Len(doc)
  /\ LET line == Trim(doc[docIdx + 1])
     IN  IF TogglesCodeBlock(line)
           THEN /\ inCodeBlock' = ~inCodeBlock
                /\ UNCHANGED <<currentFlow, parsedFlows>>
         ELSE IF inCodeBlock
           THEN UNCHANGED <<inCodeBlock, currentFlow, parsedFlows>>
         ELSE IF StartsWith(line, <<"#", " ">>)
           THEN /\ parsedFlows' = parsedFlows \o currentFlow
                /\ currentFlow' = <<NewFlow(Trim(After(line, 2)))>>
                /\ UNCHANGED inCodeBlock
         ELSE IF currentFlow = <<>>
           THEN UNCHANGED <<inCodeBlock, currentFlow, parsedFlows>>
         ELSE /\ currentFlow' = <<ParsedLine(currentFlow[1], line)>>
              /\ UNCHANGED <<inCodeBlock, parsedFlows>>
  /\ docIdx' = docIdx + 1
  /\ UNCHANGED <<doc, ppc>>
  /\ UNCHANGED nonParseVars

\* After the loop: the last flow is pushed and flows is returned.
ParseReturn ==
  /\ ppc = "lines"
  /\ docIdx >= Len(doc)
  /\ parsedFlows' = parsedFlows \o currentFlow
  /\ ppc' = "parsed"
  /\ UNCHANGED <<doc, docIdx, inCodeBlock, currentFlow>>
  /\ UNCHANGED nonParseVars

ParseNext ==
  \/ ParseLine
  \/ ParseReturn

\* ======================================================================
\* extractEnsureUIComments of the flow-capable revision
\* (src/unnamed/part_003). The pass runs on the state of the merge pass:
\* lineIdx is the loop variable i, rawComments is the local `expectations`,
\* examined and blocks record which lines the for loop tested and which
\* lines each multi-line block took.
\* ======================================================================

\* The lines of the files this revision reads.
FlowCommentCatalogue ==
  { <<"//", " ", "ensureUI">>,                           \* // ensureUI
    <<"//", " ", "ensureUI", ":", " ", "a">>,            \* // ensureUI: a
    <<"//", " ", "click", " ", "b">>,                    \* // click b
    <<"//">>,                                            \* //
    <<"x">>,                                             \* x
    <<"x", " ", "//", " ", "c">>,                        \* x // c
    <<>> }                                               \* (blank)

\* /\/\/\s*ensureUI:\s*(.+)/i matches at the `//` at position p.
ColonMarkerAt(s, p) ==
  /\ MarkerAt(s, p)
  /\ LET r == TrimStart(After(s, p))
     IN  Len(r) >= 3 /\ r[2] = ":"

\* line.match(/\/\/\s*ensureUI:\s*(.+)/i)
ColonMarkerMatch(s) ==
  LET ps == {p \in 1..Len(s) : ColonMarkerAt(s, p)}
  IN  IF ps = {} THEN NoMatch
      ELSE [matched |-> TRUE,
            capture |-> RestCapture(After(TrimStart(After(s, Leftmost(ps))), 2))]

\* line.match(/\/\/\s*ensureUI\s*$/i)
MultiLineStart(s) ==
  \E p \in 1..Len(s) :
    /\ MarkerAt(s, p)
    /\ TrimStart(Tail(TrimStart(After(s, p)))) = <<>>

\* line.match(/\/\/\s*(.*)/): the group may be empty.
CommentMatch(s) ==
  LET ps == {p \in 1..Len(s) : s[p] = "//"}
  IN  IF ps = {} THEN NoMatch
      ELSE [matched |-> TRUE, capture |-> TrimStart(After(s, Leftmost(ps)))]

FlowKeywords ==
  {"click", "fill", "submit", "navigate", "type", "select", "then", "after",
   "when", "should", "user", "login", "redirect", "form", "button", "input"}

\* isFlowKeyword: some keyword stands in the text as a whole word.
IsFlowKeyword(text) == \E k \in 1..Len(text) : text[k] \in FlowKeywords

RECURSIVE MultiLineLoop(_, _, _, _)
\* The while loop of extractMultiLineExpectation, from currentIndex on.
MultiLineLoop(ls, currentIndex, expectationText, isFlow) ==
  LET stop == [currentIndex |-> currentIndex,
               expectationText |-> expectationText,
               isFlow |-> isFlow]
  IN  IF currentIndex >= Len(ls) THEN stop
      ELSE LET commentMatch == CommentMatch(Trim(ls[currentIndex + 1]))
               commentText == Trim(commentMatch.capture)
           IN  IF ~commentMatch.matched THEN stop
               ELSE IF commentText = <<>>
                 THEN MultiLineLoop(ls, currentIndex + 1, expectationText, isFlow)
               ELSE MultiLineLoop(ls, currentIndex + 1,
                                  (IF expectationText = <<>> THEN <<>>
                                   ELSE expectationText \o <<" ">>) \o commentText,
                                  isFlow \/ IsFlowKeyword(commentText))

\* extractMultiLineExpectation(lines, startIndex); isNull stands for `return null`.
ExtractMultiLineExpectation(ls, startIndex) ==
  LET end == MultiLineLoop(ls, startIndex + 1, <<>>, FALSE)
  IN  [isNull |-> end.expectationText = <<>>,
       text |-> end.expectationText,
       type |-> IF end.isFlow THEN "flow" ELSE "static",
       endLineNumber |-> end.currentIndex - 1]

\* The indices of the lines the while loop went over before it stopped.
TakenBy(ls, startIndex) ==
  [j \in 1..(MultiLineLoop(ls, startIndex + 1, <<>>, FALSE).currentIndex
               - (startIndex + 1)) |-> startIndex + j]

\* i = multiLineExpectation.endLineNumber - 1, then the i++ of the for loop.
ResumeAfterBlock(endLineNumber) == (endLineNumber - 1) + 1

FlowExtractInit ==
  /\ lines \in SeqsUpTo(FlowCommentCatalogue, MaxLines)
  /\ mpc = "flow_scan"
  /\ lineIdx = 0
  /\ currentLine = 0
  /\ startLineNumber = 0
  /\ fullExpectation = <<>>
  /\ rawComments = <<>>
  /\ examined = {}
  /\ blocks = <<>>

\* One turn of the for loop of extractEnsureUIComments.
FlowExtractLine ==
  /\ mpc = "flow_scan"
  /\ lineIdx < Len(lines)
  /\ examined' = examined \cup {lineIdx}
  /\ LET line == Trim(lines[lineIdx + 1])
         singleLineMatch == ColonMarkerMatch(line)
         multiLineExpectation == ExtractMultiLineExpectation(lines, lineIdx)
     IN  IF singleLineMatch.matched
           THEN /\ rawComments' = Append(rawComments,
                                         [text |-> Trim(singleLineMatch.capture),
                                          lineNumber |-> lineIdx + 1,
                                          type |-> "static"])
                /\ lineIdx' = lineIdx + 1
                /\ UNCHANGED blocks
         ELSE IF MultiLineStart(line) /\ ~multiLineExpectation.isNull
           THEN /\ rawComments' = Append(rawComments,
                                         [text |-> multiLineExpectation.text,
                                          lineNumber |-> lineIdx + 1,
                                          type |-> multiLineExpectation.type,
                                          endLineNumber |-> multiLineExpectation.endLineNumber])
                /\ lineIdx' = ResumeAfterBlock(multiLineExpectation.endLineNumber)
                /\ blocks' = Append(blocks, [start |-> lineIdx,
                                             consumed |-> TakenBy(lines, lineIdx)])
         ELSE /\ lineIdx' = lineIdx + 1
              /\ UNCHANGED <<rawComments, blocks>>
  /\ UNCHANGED <<lines, mpc, currentLine, startLineNumber, fullExpectation>>
  /\ UNCHANGED nonMergeVars

\* The for loop has ended: expectations is returned.
FlowExtractReturn ==
  /\ mpc = "flow_scan"
  /\ lineIdx >= Len(lines)
  /\ mpc' = "flow_extracted"
  /\ UNCHANGED <<lines, lineIdx, currentLine, startLineNumber, fullExpectation,
                 rawComments, examined, blocks>>
  /\ UNCHANGED nonMergeVars

FlowExtractNext ==
  \/ FlowExtractLine
  \/ FlowExtractReturn

\* ======================================================================
\* The specifications
\* ======================================================================

Init == RunInit /\ FlowIdle /\ MergeIdle /\ ScanIdle /\ ParseIdle

Next == RunNext

Spec == Init /\ [][Next]_vars

InitTestPage == TestPageInit /\ FlowIdle /\ MergeIdle /\ ScanIdle /\ ParseIdle

SpecTestPage == InitTestPage /\ [][TestPageNext]_vars

InitFlow == FlowInit /\ RunIdle /\ MergeIdle /\ ScanIdle /\ ParseIdle

SpecFlow == InitFlow /\ [][FlowNext]_vars

InitComments == MergeInit /\ RunIdle /\ FlowIdle /\ ScanIdle /\ ParseIdle

SpecComments == InitComments /\ [][MergeNext]_vars

InitScan == ScanInit /\ RunIdle /\ FlowIdle /\ ParseIdle

SpecScan == InitScan /\ [][ScanNext]_vars

InitParse == ParseInit /\ RunIdle /\ FlowIdle /\ MergeIdle /\ ScanIdle

SpecParse == InitParse /\ [][ParseNext]_vars

InitFlowExtract == FlowExtractInit /\ RunIdle /\ FlowIdle /\ ScanIdle /\ ParseIdle

SpecFlowExtract == InitFlowExtract /\ [][FlowExtractNext]_vars

\* ======================================================================
\* Claims about runAllTests / runPageTest (checked under Spec)
\* ======================================================================

Entries == testResult.generatedTests

LoadFailed(k) == ~NavigationSucceeded(navLog[k])

\* C2 (as stated): whenever runPageTest has returned, every expectation of the
\* page has an entry in generatedTests.
C2_EveryExpectationRecorded ==
  pc = "returned" => Len(Entries) = Len(testResult.page.expectations)

\* C2 (amended): when runPageTest has returned and the first load succeeded
\* (no page-level error), every expectation of the page has exactly one entry,
\* in source order, and an entry that did not pass carries an error; when the
\* load failed, no expectation is recorded, the page-level error is set and the
\* page did not pass.
C2_RecordedUnlessLoadFailed ==
  pc = "returned" =>
    IF testResult.error = Null
      THEN /\ Len(Entries) = Len(testResult.page.expectations)
           /\ \A k \in 1..Len(Entries) :
                /\ Entries[k].expectation = testResult.page.expectations[k]
                /\ (~Entries[k].passed => Entries[k].error # Null)
      ELSE /\ Entries = <<>>
           /\ ~testResult.passed
           /\ LoadFailed(Len(navLog))

\* C2 witness: a page with two expectations returned with both recorded, the
\* first after a synthesis failure, the second after the engine itself threw.
C2_Witness ==
  /\ pc = "returned"
  /\ Len(Entries) = 2
  /\ Entries[1].error = ApiErrorMessage
  /\ Entries[2].error = ScreenshotErrorMessage

\* C3: every recorded entry has either passed = TRUE and error = null, or
\* passed = FALSE and a non-null error.
C3_PassedXorError ==
  \A k \in 1..Len(Entries) :
    \/ Entries[k].passed /\ Entries[k].error = Null
    \/ ~Entries[k].passed /\ Entries[k].error # Null

\* C3 witness: one page test recorded an entry on two different paths, a
\* failed assertion and a passing expectation.
C3_Witness ==
  /\ Len(Entries) = 2
  /\ Entries[1].error = "Assertion failed"
  /\ Entries[2].passed

\* C4 (as stated): the process exit status is decided only after runPageTest
\* was called for every discovered page, in order.
C4_ExitAfterEveryPage ==
  pc = "exited" => called = Iota(Len(pages))

ExecPositions ==
  {"exec_newpage", "exec_clear", "exec_goto", "exec_code", "exec_catch",
   "exec_finally", "record"}

\* C11: a generateTestCode call that failed for expectation e of a page left,
\* for that expectation, an entry with passed = FALSE, no code and the
\* failure's message as error; executeGeneratedTest only ever runs for an
\* expectation whose synthesis succeeded; and the expectation after e was
\* given to generateTestCode next (or is the one the loop is about to take).
C11_SynthesisFailureSurfaced ==
  /\ \A e \in 1..Len(synthOutcomes) :
       synthOutcomes[e] # "ok" =>
         /\ Len(Entries) >= e
         /\ ~Entries[e].passed
         /\ Entries[e].generatedCode = Null
         /\ Entries[e].error = SynthesisErrorMessage(synthOutcomes[e])
         /\ (e < Len(testResult.page.expectations) /\ e = Len(synthOutcomes)) =>
              pc = "expect" /\ expIdx = e
  /\ \A e \in 1..Len(synthOutcomes) :
       synthLog[Len(synthLog) - Len(synthOutcomes) + e] = <<pageIdx + 1, e>>
  /\ pc \in ExecPositions =>
       /\ Len(synthOutcomes) = expIdx + 1
       /\ synthOutcomes[expIdx + 1] = "ok"

\* C11 witness: synthesis failed for the first expectation of a page (the
\* collaborator was unreachable) and the code of the second one is running.
C11_Witness ==
  /\ pc = "exec_code"
  /\ expIdx = 1
  /\ Len(Entries) = 1
  /\ Entries[1].error = NetworkErrorMessage

\* C12: the isolated page is closed on every way out of executeGeneratedTest.
\* When the call is about to return or throw, a page that was opened has had
\* its close attempted and is closed; between calls no isolated page is open;
\* and at no time is more than one isolated page open.
C12_IsolatedPageClosed ==
  /\ openIsolated <= 1
  /\ openIsolated = 1 => pc \in ExecPositions /\ isolatedPage = "open"
  /\ pc = "record" =>
       /\ openIsolated = 0
       /\ isolatedPage # "open"
       /\ isolatedPage = "closed" => trace[Len(trace)] = "close"

\* C12 witness: the call leaves by the throw of the catch block's screenshot
\* after the generated code failed, and the page it opened is closed.
C12_Witness ==
  /\ pc = "record"
  /\ execOutcome = [result |-> "throw", message |-> ScreenshotErrorMessage]
  /\ isolatedPage = "closed"
  /\ trace = <<"newPage", "clearCookies", "goto", "code", "catch", "close">>
  /\ expIdx = 1

\* C17 (as stated): when the `test-page <route>` command was given an API key
\* and a page of the project resolves to the route, the command has run
\* runPageTest on that page by the time it exits, and its exit status is 0
\* when the result passed and 1 otherwise.
C17_TestPageRunsPage ==
  (/\ pc = "exited"
   /\ argRoute # Null
   /\ cliError # ApiKeyRequiredMessage
   /\ \E k \in 1..Len(pages) : pages[k].route = argRoute) =>
    /\ \E k \in 1..Len(pages) : pages[k].route = argRoute /\ called = <<k>>
    /\ exitCode = IF testResult.passed THEN 0 ELSE 1

\* C18: in every executeGeneratedTest call the context's cookies are cleared
\* after the isolated page was created and before the isolated page navigates
\* and the generated code starts; when the code is about to start, the context
\* holds no cookie set by the code of an earlier expectation.
C18_CookiesClearedFirst ==
  /\ \A i \in 1..Len(trace) :
       trace[i] \in {"goto", "code"} =>
         \E j \in 1..(i - 1) :
           /\ trace[j] = "clearCookies"
           /\ \E h \in 1..(j - 1) : trace[h] = "newPage"
  /\ pc = "exec_code" =>
       /\ trace = <<"newPage", "clearCookies", "goto">>
       /\ cookies \cap (1..MaxExpectations) = {}

\* C18 witness: the code of the second expectation is about to start after the
\* code of the first one ran and left its cookie.
C18_Witness ==
  /\ pc = "exec_code"
  /\ expIdx = 1
  /\ Len(Entries) = 1
  /\ Entries[1].generatedCode # Null
  /\ cookies = {ServerCookie}

CodeThrew == ~codePassed /\ \E i \in 1..Len(trace) : trace[i] = "code"

\* C20: when the generated code threw, the step that follows the return or the
\* throw of executeGeneratedTest stays inside runPageTest: it records the
\* expectation with passed = FALSE and a non-empty error (the message of the
\* failure handler's own exception when its screenshot threw) and the loop
\* goes on to the next expectation.
C20_CodeExceptionRecorded ==
  [][(pc = "record" /\ CodeThrew) =>
       /\ pc' = "expect"
       /\ expIdx' = expIdx + 1
       /\ Len(testResult'.generatedTests) = expIdx + 1
       /\ testResult'.generatedTests[expIdx + 1].expectation = CurrentExpectation
       /\ ~testResult'.generatedTests[expIdx + 1].passed
       /\ testResult'.generatedTests[expIdx + 1].error \notin {Null, ""}
       /\ execOutcome.result = "throw" =>
            testResult'.generatedTests[expIdx + 1].error = execOutcome.message]_vars

\* C20 witness: the code of the first expectation ran, the call threw out of
\* its failure handler, the expectation is recorded with the handler's message
\* and the second expectation is being executed.
C20_Witness ==
  /\ pc = "exec_newpage"
  /\ expIdx = 1
  /\ 1 \in cookies
  /\ Entries = <<CaughtEntry(1, ScreenshotErrorMessage)>>

\* C21 (as stated): when executeGeneratedTest is about to return or throw, its
\* result is true exactly when the generated code ran to its end without
\* throwing.
C21_TrueIffCodeCompleted ==
  pc = "record" => (execOutcome.result = "true" <=> codePassed)

\* C27 (as stated): outside runPageTest no browser is open, on whichever path
\* runPageTest was left, and never more than one browser is open.
C27_BrowserAlwaysClosed ==
  /\ browsers <= 1
  /\ pc \in {"loop", "returned", "rejected", "exited"} => browsers = 0

\* C28: the counters of runAllTests. At every point passedPages + failedPages
\* is the number of pages whose test completed and at most totalPages; the
\* k-th pushed result is the k-th discovered page's, counted as passed exactly
\* when its result passed; when the run ends normally the sum is totalPages
\* and the length of results.pages.
C28_CountersConsistent ==
  /\ results.passedPages + results.failedPages = pageIdx
  /\ Len(results.pages) = pageIdx
  /\ results.passedPages + results.failedPages <= results.totalPages
  /\ results.passedPages =
       Cardinality({k \in 1..Len(results.pages) : results.pages[k].passed})
  /\ \A k \in 1..Len(results.pages) : results.pages[k].page = pages[k]
  /\ (pc = "exited" /\ pageIdx = Len(pages)) =>
       /\ results.passedPages + results.failedPages = results.totalPages
       /\ results.totalPages = Len(results.pages)

\* C28 witness: a run of two pages has ended normally, one page passed and
\* the other failed.
C28_Witness ==
  /\ pc = "exited"
  /\ pageIdx = 2
  /\ results.totalPages = 2
  /\ results.passedPages = 1
  /\ results.failedPages = 1

\* C5: a first load that returned HTTP 500 leaves pageLoaded = FALSE,
\* passed = FALSE and no recorded expectation, no synthesis call is made for
\* that page, and when the run ends runPageTest was called for the next page.
C5_Http500SkipsExpectations ==
  \A k \in 1..Len(navLog) :
    (~navLog[k].thrown /\ navLog[k].status = 500) =>
      /\ \A c \in 1..Len(synthLog) : synthLog[c][1] # k
      /\ (k = Len(called) /\ pc \in {"finally", "returned"}) =>
            /\ ~testResult.basicChecks.pageLoaded
            /\ ~testResult.passed
            /\ Entries = <<>>
      /\ (k <= Len(results.pages)) => ~results.pages[k].passed
      /\ (pc = "exited" /\ k < Len(pages)) => Len(called) > k

\* C5 witness: the first of two pages answered 500, the second was tested and
\* passed, and the run has ended.
C5_Witness ==
  /\ pc = "exited"
  /\ Len(navLog) = 2
  /\ navLog[1].status = 500
  /\ Len(results.pages) = 2
  /\ results.pages[2].passed

\* ======================================================================
\* Claims about the merge pass (checked under SpecComments)
\* ======================================================================

RECURSIVE JoinWithSpace(_)
JoinWithSpace(parts) ==
  IF Len(parts) = 1 THEN parts[1]
  ELSE JoinWithSpace(SubSeq(parts, 1, Len(parts) - 1)) \o <<" ">> \o parts[Len(parts)]

\* The trimmed texts a block takes from its lines: the start line's capture,
\* then the capture of each consumed line.
PartsOf(b) ==
  <<Trim(SingleLineMatch(Trim(lines[b.start + 1])).capture)>> \o
  [j \in 1..Len(b.consumed) |->
     Trim(ContinuationMatch(Trim(lines[b.consumed[j] + 1])).capture)]

ConsumedIndices == UNION {Range(blocks[k].consumed) : k \in 1..Len(blocks)}

\* C8: every pushed comment is its block's parts in file order (the consumed
\* lines are the lines right after the start line, one after the other) joined
\* by exactly one space and anchored at the start line's number; no consumed
\* line is ever tested by the `for` loop as the start of a block, and once
\* the pass has ended every line was either tested or consumed (the scan
\* resumed right after each block).
C8_MergeInOrderNoRescan ==
  /\ \A k \in 1..Len(rawComments) :
       /\ \A j \in 1..Len(blocks[k].consumed) :
            blocks[k].consumed[j] = blocks[k].start + j
       /\ rawComments[k].text = JoinWithSpace(PartsOf(blocks[k]))
       /\ rawComments[k].lineNumber = blocks[k].start + 1
  /\ ConsumedIndices \cap examined = {}
  /\ mpc = "merged" => examined \cup ConsumedIndices = 0..(Len(lines) - 1)

\* C8 witness: the pass has ended on a file whose first block consumed two
\* continuation lines and whose next line opened a second block.
C8_Witness ==
  /\ mpc = "merged"
  /\ Len(rawComments) = 2
  /\ Len(blocks[1].consumed) = 2
  /\ blocks[2].start = 3

\* `// ensureUI: <text>`
ColonForm(s) ==
  /\ Len(s) >= 1 /\ s[1] = "//"
  /\ LET r == TrimStart(After(s, 1))
     IN  /\ Len(r) >= 3
         /\ IsMarker(r[1])
         /\ r[2] = ":"

\* `// ensureUI` with nothing after it
BareForm(s) ==
  /\ Len(s) >= 1 /\ s[1] = "//"
  /\ LET r == TrimStart(After(s, 1))
     IN  Len(r) = 1 /\ IsMarker(r[1])

\* C9 (as stated): once the pass has ended, every line that is a start marker
\* of either form, `// ensureUI: <text>` or bare `// ensureUI`, has a comment
\* anchored at its line number.
C9_BothMarkerFormsOpenBlock ==
  mpc = "merged" =>
    \A k \in 1..Len(lines) :
      (ColonForm(Trim(lines[k])) \/ BareForm(Trim(lines[k]))) =>
        \E c \in 1..Len(rawComments) : rawComments[c].lineNumber = k

\* `// <text>`: a line that is a comment from its first character on.
PlainCommentLine(s) == Len(s) >= 2 /\ s[1] = "//"

\* C24 (as stated): every line consumed into a block as a continuation is a
\* plain comment line `// <text>` that carries no marker; a line of code, also
\* one with a trailing `//` comment, is never merged.
C24_OnlyPlainCommentsMerged ==
  \A i \in ConsumedIndices :
    PlainCommentLine(Trim(lines[i + 1])) /\ ~MarkerTest(Trim(lines[i + 1]))

\* The text T of a start line `// ensureUI: T`.
TextAfterColon(s) == Trim(After(TrimStart(After(s, 1)), 2))

\* C25 (as stated): the text of a comment whose start line is
\* `// ensureUI: T` is T followed by the space-joined texts of its
\* continuation lines; the marker and its colon are not part of the text.
C25_TextExcludesMarkerAndColon ==
  \A k \in 1..Len(rawComments) :
    ColonForm(Trim(lines[blocks[k].start + 1])) =>
      rawComments[k].text =
        JoinWithSpace(<<TextAfterColon(Trim(lines[blocks[k].start + 1]))>> \o
                      Tail(PartsOf(blocks[k])))

\* ======================================================================
\* Claims about scanDirectory, the split loop and getRouteFromPath
\* (checked under SpecScan)
\* ======================================================================

\* A route with an empty segment: `//` inside it, or a `/` at the end of a
\* route that is not the root.
HasEmptySegment(route) ==
  /\ route # <<"/">>
  /\ \/ route = <<>>
     \/ route[Len(route)] = "/"
     \/ \E k \in 1..(Len(route) - 1) : route[k] = "/" /\ route[k + 1] = "/"

\* A route that still shows a bracket of a dynamic segment.
HasPlaceholder(route) == \E k \in 1..Len(route) : route[k] \in {"[", "]"}

\* The bracketed segment [param] stands in the path.
NamesSegmentOf(param, path) ==
  \E p \in 1..Len(path) :
    /\ path[p] = "["
    /\ p + Len(param) + 1 <= Len(path)
    /\ SubSeq(path, p + 1, p + Len(param)) = param
    /\ path[p + Len(param) + 1] = "]"

\* C6 (as stated): every logged parameter error names a dynamic segment of
\* its file, whose page is not discovered, and no discovered page has a route
\* with an empty or placeholder segment, whatever urlParams the split gave.
C6_SegmentSubstitutedOrNamed ==
  /\ \A k \in 1..Len(paramErrors) :
       /\ NamesSegmentOf(paramErrors[k].param, paramErrors[k].filePath)
       /\ \A d \in 1..Len(discovered) :
            discovered[d].filePath # paramErrors[k].filePath
  /\ \A d \in 1..Len(discovered) :
       /\ ~HasEmptySegment(discovered[d].route)
       /\ ~HasPlaceholder(discovered[d].route)

\* The file has no line with the marker: nothing can be extracted from it.
Unmarked(file) == \A k \in 1..Len(file.content) : ~MarkerTest(file.content[k])

\* C16: a page file with zero extracted expectations is left out of the
\* discovered pages, the list runAllTests counts and tests: every discovered
\* page carries at least one expectation, and a scanned file without a marker
\* line is neither discovered nor reported with an error.
C16_EmptyPagesExcluded ==
  /\ \A d \in 1..Len(discovered) : Len(discovered[d].expectations) > 0
  /\ \A k \in 1..fileIdx :
       Unmarked(files[k]) =>
         /\ \A d \in 1..Len(discovered) : discovered[d].filePath # files[k].path
         /\ \A e \in 1..Len(paramErrors) : paramErrors[e].filePath # files[k].path

\* C16 witness: two page files have been scanned, app/layout.js without a
\* marker and app/page.js whose one comment was split into no expectation;
\* neither is discovered.
C16_Witness ==
  /\ spc = "dir"
  /\ fileIdx = 2
  /\ files[1].path = PathOf(<<"app", "/", "layout", ".js">>)
  /\ files[2].path = PathOf(<<"app", "/", "page", ".js">>)
  /\ ~Unmarked(files[2])
  /\ discovered = <<>>
  /\ paramErrors = <<>>

\* The position of the file with this path in the scanned directory, 0 if none.
FileIndex(path) ==
  IF \E k \in 1..Len(files) : files[k].path = path
    THEN CHOOSE k \in 1..Len(files) : files[k].path = path
    ELSE 0

C29_EveryCommentContributes ==
  spc \in {"extract", "extracted"} =>
    \A k \in 1..commentIdx :
      \E e \in 1..Len(expectations) :
        expectations[e].lineNumber = rawComments[k].lineNumber

\* C15 (as stated): every route getRouteFromPath returned for a discovered
\* page begins with `/` and does not end with `/` unless it is the root `/`.
C15_RouteWellFormed ==
  \A d \in 1..Len(discovered) :
    LET route == discovered[d].route
    IN  /\ route # <<>>
        /\ Head(route) = "/"
        /\ route = <<"/">> \/ route[Len(route)] # "/"

\* The schema the collaborator's answer is validated against: an object whose
\* `expectations` is an array of strings and whose `urlParams` is an object.
MatchesSchema(v) ==
  /\ v.type = "object"
  /\ {"expectations", "urlParams"} \subseteq DOMAIN v.fields
  /\ v.fields["expectations"].type = "array"
  /\ \A k \in 1..Len(v.fields["expectations"].items) :
       v.fields["expectations"].items[k].type = "string"
  /\ v.fields["urlParams"].type \in {"object", "array"}

\* The text-generation call failed, or its answer is no JSON, or the JSON
\* fails the schema.
SplitFails(answer) ==
  \/ answer.kind = "throws"
  \/ answer.body.type = "invalid"
  \/ ~MatchesSchema(answer.body)

\* The expectations of the file that are anchored at comment k's line.
EntriesOf(k) ==
  SelectSeq(expectations, LAMBDA e : e.lineNumber = rawComments[k].lineNumber)

\* C10: for every comment already split, a failed split left exactly one
\* expectation, whose text is the comment's text, and no route parameter (every
\* route parameter collected comes from an accepted answer); a split that did
\* not fail left the expectations the answer lists; and when the split loop
\* has ended every comment of the file has been split.
C10_SplitFallback ==
  /\ \A k \in 1..Len(responses) :
       IF SplitFails(responses[k])
       THEN EntriesOf(k) = <<[text |-> rawComments[k].text,
                              lineNumber |-> rawComments[k].lineNumber,
                              originalComment |-> rawComments[k].text]>>
       ELSE Len(EntriesOf(k)) = Len(responses[k].body.fields["expectations"].items)
  /\ \A key \in DOMAIN allUrlParams :
       \E k \in 1..Len(responses) :
         /\ ~SplitFails(responses[k])
         /\ key \in DOMAIN OwnFields(responses[k].body.fields["urlParams"])
         /\ OwnFields(responses[k].body.fields["urlParams"])[key] = allUrlParams[key]
  /\ (spc = "extracted" /\ mpc = "merged") => Len(responses) = Len(rawComments)

\* C10 witness: a file with two comments has been extracted; the answer for
\* the first was a JSON text that fails the schema, the answer for the second
\* was accepted with two expectations and a route parameter.
C10_Witness ==
  /\ spc = "extracted"
  /\ Len(rawComments) = 2
  /\ Len(responses) = 2
  /\ responses[1].kind = "text"
  /\ responses[1].body.type = "object"
  /\ SplitFails(responses[1])
  /\ ~SplitFails(responses[2])
  /\ Len(expectations) = 3
  /\ "id" \in DOMAIN allUrlParams

\* ======================================================================
\* Claims about runFlowTest (checked under SpecFlow)
\* ======================================================================

\* The steps of flow f as they stand: the current flow's step objects, or the
\* steps of the result run() stored.
StepsOfFlow(f) == IF f <= Len(flowResults) THEN flowResults[f].steps ELSE steps

\* C1: a step of a flow is attempted only when every earlier step of the flow
\* passed, and a step that was never attempted keeps generatedCode = null and
\* passed = FALSE in the returned result.
C1_FlowShortCircuit ==
  /\ \A a \in Range(attempted) :
       \A j \in 1..(a[2] - 1) : StepsOfFlow(a[1])[j].passed
  /\ fpc = "flow_returned" =>
       \A k \in 1..Len(steps) :
         (\E j \in 1..(k - 1) : ~steps[j].passed) =>
           /\ <<flowIdx + 1, k>> \notin Range(attempted)
           /\ steps[k].generatedCode = Null
           /\ ~steps[k].passed
           /\ steps[k].error = Null

\* C1 witness: the flow [S1(pass), S2(fail), S3] has returned.
C1_Witness ==
  /\ fpc = "flow_returned"
  /\ Len(steps) = 3
  /\ steps[1].passed
  /\ ~steps[2].passed /\ steps[2].error = "Flow step failed"
  /\ steps[3].generatedCode = Null
  /\ ~flowResult.passed

\* The names a text refers to as `@name`.
Mentions(text) == {text[k + 1] : k \in {j \in 1..(Len(text) - 1) : text[j] = "@"}}

\* C7 (as stated): code synthesis is never invoked with a text that still
\* holds `@name` for a variable the flow declares.
C7_SynthesisTextSubstituted ==
  \A t \in Range(synthTexts) :
    Mentions(t[3]) \cap DOMAIN flows[t[1]].variables = {}

\* C13: the passed of a returned flow is the conjunction of the pass results
\* of its attempted steps: TRUE exactly when every step of the flow was
\* attempted and passed, FALSE once an attempted step has failed.
C13_FlowPassedIsConjunction ==
  fpc = "flow_returned" =>
    LET tried == {k \in 1..Len(steps) : <<flowIdx + 1, k>> \in Range(attempted)}
    IN  /\ flowResult.passed = (\A k \in tried : steps[k].passed)
        /\ flowResult.passed = (\A k \in 1..Len(steps) : k \in tried /\ steps[k].passed)
        /\ (\E k \in tried : ~steps[k].passed) => ~flowResult.passed

\* C13 witness: a flow whose first step passed and whose second step failed
\* has returned with passed = FALSE.
C13_Witness ==
  /\ fpc = "flow_returned"
  /\ Len(steps) = 2
  /\ steps[1].passed
  /\ ~steps[2].passed /\ steps[2].generatedCode # Null
  /\ ~flowResult.passed

\* The browser session as it stands once the code of steps 1..k has run.
RECURSIVE SessionAfter(_)
SessionAfter(k) == IF k = 0 THEN EmptySession ELSE Touched(SessionAfter(k - 1), k)

\* C14 (as stated): when the step loop has ended on a failed step,
\* flowState.cookies and flowState.localStorage are the values snapshotted
\* after the last step recorded as passed (empty when no step passed).
C14_FailureKeepsSnapshot ==
  (fpc = "flow_verdict" /\ stepIdx < Len(steps)) =>
    /\ ~steps[stepIdx + 1].passed
    /\ flowState.cookies = SessionAfter(stepIdx).cookies
    /\ flowState.localStorage = SessionAfter(stepIdx).localStorage

\* C22 (as stated): a step whose navigation answered with a status other
\* than 200 is not carried on: no code is generated or run for it, it is
\* never recorded as passed, and once the step loop has ended it is failed
\* with an error and is the last step attempted.
C22_NavigationErrorFatal ==
  navStatus \notin {0, StatusOK} =>
    /\ fpc = "flow_verdict"
    /\ ~steps[stepIdx + 1].passed
    /\ steps[stepIdx + 1].error # Null
    /\ \A a \in Range(attempted) : a[1] = flowIdx + 1 => a[2] <= stepIdx + 1

\* ======================================================================
\* Claims about parseFlowFile (checked under SpecParse)
\* ======================================================================

\* Line k of the document lies between an opening fence and its closing fence.
InsideFence(k) ==
  Cardinality({j \in 1..(k - 1) : StartsWith(Trim(doc[j]), <<Fence>>)}) % 2 = 1

\* Line k is a line the document's format reads: not a fence, outside a fence.
ReadLine(k) == ~StartsWith(Trim(doc[k]), <<Fence>>) /\ ~InsideFence(k)

\* The numbered lines outside any fence and after a heading, in document order.
NumberedLines ==
  SelectSeq([k \in 1..Len(doc) |-> k],
            LAMBDA k : /\ ReadLine(k)
                       /\ StepMatch(Trim(doc[k])).matched
                       /\ \E h \in 1..(k - 1) :
                            ReadLine(h) /\ StartsWith(Trim(doc[h]), <<"#", " ">>))

RECURSIVE StepTexts(_)
\* The step descriptions of a list of flows, flow after flow.
StepTexts(fl) ==
  IF fl = <<>> THEN <<>>
  ELSE [k \in 1..Len(fl[1].steps) |-> fl[1].steps[k].description] \o StepTexts(Tail(fl))

\* C23 (as stated): the steps parseFlowFile returned are, in document order,
\* the numbered lines that are outside any fence and after a heading; blank
\* lines change nothing.
C23_OnlyFencesSkipped ==
  ppc = "parsed" =>
    StepTexts(parsedFlows) =
      [n \in 1..Len(NumberedLines) |-> StepMatch(Trim(doc[NumberedLines[n]])).capture]

\* ======================================================================
\* Claims about extractEnsureUIComments of the flow-capable revision
\* (checked under SpecFlowExtract)
\* ======================================================================

\* C30 (as stated): every comment line is used at most once: a line taken
\* into a multi-line block is never tested again by the for loop and is never
\* the anchor of an expectation of its own.
C30_EachLineUsedOnce ==
  /\ ConsumedIndices \cap examined = {}
  /\ \A c \in 1..Len(rawComments) :
       rawComments[c].lineNumber - 1 \notin ConsumedIndices

====
